---- MODULE Spec2Model ----
(***************************************************************************)
(* Campaign dispatch pipeline of the WhatsApp/Bitrix24 connector: the      *)
(* relational store (campaigns, campaign_targets, queue, messages,         *)
(* senders), the queue library (enqueueTarget, fetchBatch, markDone,       *)
(* markFailed), the API handlers that create, start, pause, resume and     *)
(* cancel campaigns, and the worker whose async tick() is started by       *)
(* setInterval.  A tick runs to completion between its awaits; the steps   *)
(* of a tick are the loop iterations, cut at the two awaits (the provider  *)
(* call and the rate-limit sleep).                                         *)
(***************************************************************************)
EXTENDS Integers, Sequences, FiniteSets, TLC

VARIABLES
  now,        \* Date.now(), epoch ms
  campaigns,  \* table campaigns, row id = index
  targets,    \* table campaign_targets, row id = index
  queue,      \* table queue, row id = index
  messages,   \* table messages, row id = index
  senders,    \* table senders: the phone_id column
  ticks,      \* the invocations of tick(): position, claimed batch, loop index
  calls,      \* history: provider calls issued for each queue row
  fetched,    \* history: how often fetchBatch returned each queue row
  env,        \* process.env: the configuration read at startup
  http,       \* the last API request and the response it got
  events,     \* table events, row id = index
  crm,        \* timeline comments pushed to the CRM, and the pushes that failed
  hook        \* the handler of POST /webhooks/wa: position and events still to handle

vars == <<now, campaigns, targets, queue, messages, senders, ticks, calls, fetched,
          env, http, events, crm, hook>>

-----------------------------------------------------------------------------
(* Bounds of the model *)

MaxCampaigns == 2     \* campaigns created
MaxQueue == 2         \* queue rows inserted
MaxAttempts == 1      \* failed sends of one queue row
MaxClockSteps == 1    \* the clock stops at this many backoff periods
NumTicks == 2         \* tick() invocations that can be in progress at once
BatchSize == 2        \* value of env BATCH_SIZE
SmallBatch == 1       \* a smaller value of env BATCH_SIZE
MaxPrevAttempts == 12  \* attempts already on a row when markFailed is applied
MaxEnqueued == 3      \* rows added by enqueueTarget in the enqueue scenario
MaxEvents == 2        \* rows of the events table
MaxAbortQueue == 3    \* queue rows inserted when ticks can abort
MaxHookClock == 1     \* seconds that pass while callbacks arrive
ScenarioQueue == 9    \* queue rows inserted in the start scenario

(* Program constants *)

SEND_BACKOFF_MS == 3000      \* markFailed(job.id, 3000)
BACKOFF_CAP == 10            \* Math.min(attempts, 10)
ERROR_SLICE == 500           \* String(msg).slice(0, 500)
CALLBACK_ERROR_SLICE == 300  \* String(errText).slice(0, 300)
PHONE_MIN_DIGITS == 7        \* /^\d{7,15}$/
PHONE_MAX_DIGITS == 15

-----------------------------------------------------------------------------
(* Small helpers *)

Min(a, b) == IF a <= b THEN a ELSE b

SetMin(S) == CHOOSE m \in S : \A x \in S : m <= x

RECURSIVE Asc(_)
Asc(S) == IF S = {} THEN <<>> ELSE <<SetMin(S)>> \o Asc(S \ {SetMin(S)})

Take(s, n) == SubSeq(s, 1, Min(n, Len(s)))

Range(s) == {s[i] : i \in DOMAIN s}

-----------------------------------------------------------------------------
(* Phones: strings as sequences of characters *)

Digits == {"0", "1", "2", "3", "4", "5", "6", "7", "8", "9"}

RECURSIVE OnlyDigits(_)
OnlyDigits(s) ==
  IF s = <<>> THEN <<>>
  ELSE IF Head(s) \in Digits THEN <<Head(s)>> \o OnlyDigits(Tail(s))
       ELSE OnlyDigits(Tail(s))

RECURSIVE StripZeros(_)
StripZeros(s) ==
  IF s # <<>> /\ Head(s) = "0" THEN StripZeros(Tail(s)) ELSE s

StartsWith(s, p) == Len(s) >= Len(p) /\ SubSeq(s, 1, Len(p)) = p

Drop(s, n) == SubSeq(s, n + 1, Len(s))

DEFAULT_COUNTRY_CODE == <<"5", "1">>

normalizePhone(raw, cc) ==
  LET d0 == OnlyDigits(raw)
      d1 == IF StartsWith(d0, <<"0", "0">>) THEN Drop(d0, 2) ELSE d0
      d2 == IF StartsWith(d1, <<"0">>) /\ cc # <<>> THEN cc \o Drop(d1, 1) ELSE d1
      d3 == IF cc # <<>> /\ ~StartsWith(d2, cc) /\ Len(d2) <= 10 THEN cc \o d2 ELSE d2
  IN IF d0 = <<>> THEN <<>> ELSE StripZeros(d3)

isLikelyValidPhone(phone) ==
  /\ Len(phone) >= PHONE_MIN_DIGITS
  /\ Len(phone) <= PHONE_MAX_DIGITS
  /\ \A i \in DOMAIN phone : phone[i] \in Digits

PhoneA == <<"9", "1", "8", "1", "3", "1", "0", "8", "2">>
PhoneB == <<"9", "1", "8", "1", "3", "1", "0", "8", "3">>
PhoneShort == <<"1", "2", "3", "4", "5">>

PhoneC == <<"9", "1", "8", "1", "3", "1", "0", "8", "4">>
PhoneD == <<"9", "1", "8", "1", "3", "1", "0", "8", "5">>
PhoneE == <<"9", "1", "8", "1", "3", "1", "0", "8", "6">>

(* the target lists the API is called with *)
TargetLists == { <<PhoneA, PhoneShort>> }

(* the targets of the campaign of the start scenario *)
ScenarioPhones == <<PhoneA, PhoneB, PhoneC, PhoneD, PhoneE>>

-----------------------------------------------------------------------------
(* Rows *)

NoError == [text |-> "", len |-> 0]
TemplateName == "promo"
NoId == 0
NoSender == ""
WA_PHONE_NUMBER_ID == "S1"
RequestedSenders == {"S2"}

GateStatuses == {"paused", "canceled", "done", "error"}
StartStatuses == {"queued", "failed"}
CancelStatuses == {"queued", "sending"}
UnfinishedStatuses == {"queued", "sending", "failed"}

TimeoutError == [text |-> "timeout", len |-> 7]
ProviderError == [text |-> "provider_error", len |-> 700]
ErrorTexts == {TimeoutError, ProviderError}

(* the error text stored whole *)
sliceNone(msg, n) == msg

slice(msg, n) == [msg EXCEPT !.len = Min(msg.len, n)]

(* process.env as the worker and the server read it: no delivery window, no
   application secret *)
DefaultEnv == [DELIVERY_WINDOW |-> <<>>, WA_APP_SECRET |-> ""]

(* no request has been answered yet *)
NoBody == [ok |-> FALSE]
NoRequest == [route |-> "", id |-> 0, status |-> 0, body |-> NoBody, req |-> <<>>]

(* the handler of POST /webhooks/wa between two requests *)
NoHook == [pc |-> "idle", req |-> <<>>, statuses |-> <<>>, messages |-> <<>>,
           target |-> NoId, kind |-> ""]

IdleTick == [pc |-> "idle", batch |-> <<>>, i |-> 0]

Ticks == 1..NumTicks

(* ticks 1 and 2 are invocations in one worker process, tick 3 and 4 in a second *)
WorkerOf(t) == (t + 1) \div 2

-----------------------------------------------------------------------------
(* Queue library *)

QueueRow(campaign_id, target_id, phone_id, t) ==
  [campaign_id |-> campaign_id, target_id |-> target_id, phone_id |-> phone_id,
   available_at |-> t, attempts |-> 0, status |-> "queued"]

(* the INSERT with available_at left at the epoch *)
enqueueTargetAtEpoch(q, campaign_id, target_id, phone_id, t) ==
  Append(q, [QueueRow(campaign_id, target_id, phone_id, t) EXCEPT !.available_at = 0])

enqueueTarget(q, campaign_id, target_id, phone_id, t) ==
  Append(q, QueueRow(campaign_id, target_id, phone_id, t))

(* the WHERE clause without status='queued' *)
EligibleAnyStatus(q, t) == {id \in DOMAIN q : q[id].available_at <= t}

(* the WHERE clause without available_at<=? *)
EligibleAnyTime(q, t) == {id \in DOMAIN q : q[id].status = "queued"}

(* the WHERE clause taking claimed rows back as well *)
EligibleOrStale(q, t) ==
  {id \in DOMAIN q : q[id].status \in {"queued", "processing"} /\ q[id].available_at <= t}

(* WHERE status='queued' AND available_at<=? *)
Eligible(q, t) ==
  {id \in DOMAIN q : q[id].status = "queued" /\ q[id].available_at <= t}

(* ORDER BY id ASC LIMIT ? *)
SelectRows(q, t, limit) == Take(Asc(Eligible(q, t)), limit)

(* the rows are returned without the UPDATE *)
MarkProcessingNone(q, ids) == q

(* for (const id of ids) mark.run(id) *)
MarkProcessing(q, ids) ==
  [id \in DOMAIN q |-> IF id \in Range(ids) THEN [q[id] EXCEPT !.status = "processing"]
                       ELSE q[id]]

(* the UPDATE resetting the attempts counter as well *)
markDoneReset(q, id) ==
  [x \in DOMAIN q |->
     IF x = id THEN [q[x] EXCEPT !.status = "done", !.attempts = 0] ELSE q[x]]

markDone(q, id) ==
  [x \in DOMAIN q |-> IF x = id THEN [q[x] EXCEPT !.status = "done"] ELSE q[x]]

(* the delay without Math.min *)
BackoffDelayUncapped(attempts, backoffMs) == backoffMs * attempts

BackoffDelay(attempts, backoffMs) == backoffMs * Min(attempts, BACKOFF_CAP)

(* markFailed with a cutoff: from the fifth attempt on the row is given up *)
markFailedCutoff(q, id, backoffMs, t) ==
  [q EXCEPT ![id] = [@ EXCEPT !.attempts = @ + 1,
                              !.status = IF q[id].attempts + 1 >= 5 THEN "failed" ELSE "queued",
                              !.available_at = t + backoffMs * Min(q[id].attempts + 1, BACKOFF_CAP)]]

markFailed(q, id, backoffMs, t) ==
  LET attempts == q[id].attempts + 1
      avail == t + BackoffDelay(attempts, backoffMs)
  IN [x \in DOMAIN q |->
        IF x = id
        THEN [q[x] EXCEPT !.status = "queued", !.attempts = attempts, !.available_at = avail]
        ELSE q[x]]

-----------------------------------------------------------------------------
(* Campaign API *)

ensureSender(phone_id) == IF phone_id # NoSender THEN phone_id ELSE WA_PHONE_NUMBER_ID

(* normalizeTargets without the isLikelyValidPhone test *)
RECURSIVE normalizeTargetsUnchecked(_)
normalizeTargetsUnchecked(list) ==
  IF list = <<>> THEN <<>>
  ELSE <<normalizePhone(Head(list), DEFAULT_COUNTRY_CODE)>> \o normalizeTargetsUnchecked(Tail(list))

RECURSIVE normalizeTargets(_)
normalizeTargets(list) ==
  IF list = <<>> THEN <<>>
  ELSE LET phone == normalizePhone(Head(list), DEFAULT_COUNTRY_CODE)
       IN IF isLikelyValidPhone(phone) THEN <<phone>> \o normalizeTargets(Tail(list))
          ELSE normalizeTargets(Tail(list))

(* a row of campaign_targets as the INSERT makes it: created_at = updated_at = now *)
TargetRow(campaign_id, phone) ==
  [campaign_id |-> campaign_id, phone |-> phone, status |-> "queued",
   last_error |-> NoError, wa_message_id |-> NoId, updated_at |-> now,
   vars |-> <<>>]

(* the INSERT loop on a table without UNIQUE(campaign_id, phone) *)
RECURSIVE InsertTargetsNoUnique(_, _, _)
InsertTargetsNoUnique(tg, campaign_id, phones) ==
  IF phones = <<>> THEN tg
  ELSE InsertTargetsNoUnique(Append(tg, TargetRow(campaign_id, Head(phones))), campaign_id,
                             Tail(phones))

(* tStmt.run inside try/catch: a row violating UNIQUE(campaign_id, phone) is skipped *)
RECURSIVE InsertTargets(_, _, _)
InsertTargets(tg, campaign_id, phones) ==
  IF phones = <<>> THEN tg
  ELSE IF \E id \in DOMAIN tg : tg[id].campaign_id = campaign_id /\ tg[id].phone = Head(phones)
       THEN InsertTargets(tg, campaign_id, Tail(phones))
       ELSE InsertTargets(Append(tg, TargetRow(campaign_id, Head(phones))), campaign_id, Tail(phones))

CampaignRow(sender_phone_id, total) ==
  [status |-> "draft", sender_phone_id |-> sender_phone_id, total_targets |-> total,
   template_name |-> TemplateName]

(* createCampaignRecord: ensureSender runs first, an empty normalized list throws *)
CreatedTargets(c, tg, list) == InsertTargets(tg, Len(c) + 1, normalizeTargets(list))

CreatedCampaigns(c, tg, list, requestedSender) ==
  Append(c, CampaignRow(ensureSender(requestedSender),
                        Len(CreatedTargets(c, tg, list)) - Len(tg)))

CreateCampaign(list, requestedSender) ==
  /\ Len(campaigns) < MaxCampaigns
  /\ senders' = senders \cup {ensureSender(requestedSender)}
  /\ IF normalizeTargets(list) = <<>>
     THEN UNCHANGED <<campaigns, targets>>
     ELSE /\ campaigns' = CreatedCampaigns(campaigns, targets, list, requestedSender)
          /\ targets' = CreatedTargets(campaigns, targets, list)
  /\ UNCHANGED <<now, queue, messages, ticks, calls, fetched, env, events, crm, hook>>

RECURSIVE BasicPhones(_)
BasicPhones(list) ==
  IF list = <<>> THEN <<>>
  ELSE <<StripZeros(OnlyDigits(Head(list)))>> \o BasicPhones(Tail(list))

(* POST /api/campaigns of the basic server: phones are stripped, not validated *)
CreateCampaignBasic(list) ==
  LET campaign_id == Len(campaigns) + 1
  IN /\ Len(campaigns) < MaxCampaigns
     /\ list # <<>>
     /\ senders' = senders \cup {WA_PHONE_NUMBER_ID}
     /\ campaigns' = Append(campaigns, CampaignRow(WA_PHONE_NUMBER_ID, Len(list)))
     /\ targets' = InsertTargets(targets, campaign_id, BasicPhones(list))
     /\ UNCHANGED <<now, queue, messages, ticks, calls, fetched, env, events, crm, hook>>

(* the SELECT without the status filter *)
StartTargetsAnyStatus(tg, campaign_id) ==
  Asc({id \in DOMAIN tg : tg[id].campaign_id = campaign_id})

(* the SELECT without campaign_id=? *)
StartTargetsAnyCampaign(tg, campaign_id) ==
  Asc({id \in DOMAIN tg : tg[id].status \in StartStatuses})

(* SELECT id FROM campaign_targets WHERE campaign_id=? AND status IN ('queued','failed') *)
StartTargets(tg, campaign_id) ==
  Asc({id \in DOMAIN tg : tg[id].campaign_id = campaign_id /\ tg[id].status \in StartStatuses})

RECURSIVE EnqueueAll(_, _, _, _, _)
EnqueueAll(q, campaign_id, ids, phone_id, t) ==
  IF ids = <<>> THEN q
  ELSE EnqueueAll(enqueueTarget(q, campaign_id, Head(ids), phone_id, t),
                  campaign_id, Tail(ids), phone_id, t)

Zeros(n) == [i \in 1..n |-> 0]

startCampaign(campaign_id, limit) ==
  LET phone_id == ensureSender(campaigns[campaign_id].sender_phone_id)
      ids == StartTargets(targets, campaign_id)
  IN /\ campaign_id \in DOMAIN campaigns
     /\ Len(queue) + Len(ids) <= limit
     /\ senders' = senders \cup {phone_id}
     /\ campaigns' = [campaigns EXCEPT ![campaign_id].status = "running",
                                       ![campaign_id].sender_phone_id = phone_id]
     /\ queue' = EnqueueAll(queue, campaign_id, ids, phone_id, now)
     /\ calls' = calls \o Zeros(Len(ids))
     /\ fetched' = fetched \o Zeros(Len(ids))
     /\ UNCHANGED <<now, targets, messages, ticks, env, events, crm, hook>>

Start(campaign_id) == startCampaign(campaign_id, MaxQueue)

SetCampaignStatus(c, campaign_id, status) ==
  [id \in DOMAIN c |-> IF id = campaign_id THEN [c[id] EXCEPT !.status = status] ELSE c[id]]

Pause(campaign_id) ==
  /\ campaign_id \in DOMAIN campaigns
  /\ campaigns' = SetCampaignStatus(campaigns, campaign_id, "paused")
  /\ UNCHANGED <<now, targets, queue, messages, senders, ticks, calls, fetched, env, events, crm, hook>>

(* resume taken for start: the campaign's queued and failed targets are enqueued *)
ResumeEnqueues(campaign_id) ==
  /\ campaign_id \in DOMAIN campaigns
  /\ campaigns' = SetCampaignStatus(campaigns, campaign_id, "running")
  /\ queue' = EnqueueAll(queue, campaign_id, StartTargets(targets, campaign_id),
                         campaigns[campaign_id].sender_phone_id, now)
  /\ calls' = calls \o Zeros(Len(StartTargets(targets, campaign_id)))
  /\ fetched' = fetched \o Zeros(Len(StartTargets(targets, campaign_id)))
  /\ UNCHANGED <<now, targets, messages, senders, ticks, env, events, crm, hook>>

Resume(campaign_id) ==
  /\ campaign_id \in DOMAIN campaigns
  /\ campaigns' = SetCampaignStatus(campaigns, campaign_id, "running")
  /\ UNCHANGED <<now, targets, queue, messages, senders, ticks, calls, fetched, env, events, crm, hook>>

(* the UPDATE without campaign_id=? *)
CancelTargetsAnyCampaign(tg, campaign_id) ==
  [id \in DOMAIN tg |->
     IF tg[id].status \in CancelStatuses THEN [tg[id] EXCEPT !.status = "canceled"]
     ELSE tg[id]]

(* UPDATE campaign_targets SET status='canceled' WHERE campaign_id=? AND status IN ('queued','sending') *)
CancelTargets(tg, campaign_id) ==
  [id \in DOMAIN tg |->
     IF tg[id].campaign_id = campaign_id /\ tg[id].status \in CancelStatuses
     THEN [tg[id] EXCEPT !.status = "canceled"]
     ELSE tg[id]]

Cancel(campaign_id) ==
  /\ campaign_id \in DOMAIN campaigns
  /\ campaigns' = SetCampaignStatus(campaigns, campaign_id, "canceled")
  /\ targets' = CancelTargets(targets, campaign_id)
  /\ UNCHANGED <<now, queue, messages, senders, ticks, calls, fetched, env, events, crm, hook>>

-----------------------------------------------------------------------------
(* Worker *)

(* str.split(sep) for a one-character separator *)
RECURSIVE split(_, _)
split(str, sep) ==
  IF \A i \in DOMAIN str : str[i] # sep THEN <<str>>
  ELSE LET k == CHOOSE i \in DOMAIN str : str[i] = sep /\ \A j \in 1..(i - 1) : str[j] # sep
       IN <<SubSeq(str, 1, k - 1)>> \o split(SubSeq(str, k + 1, Len(str)), sep)

(* NaN, which no comparison accepts *)
NaN == -1

DigitChars == <<"0", "1", "2", "3", "4", "5", "6", "7", "8", "9">>

DigitValue(d) == CHOOSE n \in 0..9 : DigitChars[n + 1] = d

(* Number(str) for a string of digits; Number('') is 0, any other text is NaN *)
RECURSIVE Number(_)
Number(str) ==
  IF str = <<>> THEN 0
  ELSE IF \E i \in DOMAIN str : str[i] \notin Digits THEN NaN
  ELSE Number(SubSeq(str, 1, Len(str) - 1)) * 10 + DigitValue(str[Len(str)])

(* const [h, m] = hhmm.split(':').map(Number); return h * 60 + m *)
toMinutes(hhmm) ==
  LET parts == split(hhmm, ":")
  IN IF Len(parts) < 2 \/ Number(parts[1]) = NaN \/ Number(parts[2]) = NaN THEN NaN
     ELSE Number(parts[1]) * 60 + Number(parts[2])

(* a >= b in JavaScript: false when either side is NaN *)
Geq(a, b) == a # NaN /\ b # NaN /\ a >= b

(* now.getHours() * 60 + now.getMinutes(), the epoch taken at local midnight *)
MinuteOfDay(t) == (t \div 60000) % 1440

(* the window test without the branch that crosses midnight *)
inWindowSameDay(t, windowStr) ==
  LET parts == split(windowStr, "-")
  IN IF windowStr = <<>> THEN TRUE
     ELSE IF Len(parts) < 2 \/ parts[1] = <<>> \/ parts[2] = <<>> THEN TRUE
     ELSE /\ Geq(MinuteOfDay(t), toMinutes(parts[1]))
          /\ Geq(toMinutes(parts[2]), MinuteOfDay(t))

inWindow(t, windowStr) ==
  LET parts == split(windowStr, "-")
      minutes == MinuteOfDay(t)
  IN IF windowStr = <<>> THEN TRUE
     ELSE IF Len(parts) < 2 \/ parts[1] = <<>> \/ parts[2] = <<>> THEN TRUE
     ELSE LET st == toMinutes(parts[1])
              e == toMinutes(parts[2])
          IN IF Geq(e, st) THEN Geq(minutes, st) /\ Geq(e, minutes)
             ELSE Geq(minutes, st) \/ Geq(e, minutes)

(* const WINDOW = process.env.DELIVERY_WINDOW || '' *)
WINDOW == env.DELIVERY_WINDOW

(* the phone check as /^\d{1,15}$/ *)
PhoneOkNoMin(phone) ==
  /\ Len(phone) >= 1
  /\ Len(phone) <= PHONE_MAX_DIGITS
  /\ \A i \in DOMAIN phone : phone[i] \in Digits

(* the worker's phone check, /^\d{7,15}$/.test(target.phone) *)
PhoneOk(phone) ==
  /\ Len(phone) >= PHONE_MIN_DIGITS
  /\ Len(phone) <= PHONE_MAX_DIGITS
  /\ \A i \in DOMAIN phone : phone[i] \in Digits

(* the gate without 'paused' *)
GatedNotPaused(c, campaign_id) ==
  campaign_id \notin DOMAIN c \/ c[campaign_id].status \in GateStatuses \ {"paused"}

(* !camp || ['paused','canceled','done','error'].includes(camp.status) *)
Gated(c, campaign_id) ==
  campaign_id \notin DOMAIN c \/ c[campaign_id].status \in GateStatuses

(* UPDATE campaign_targets SET status=?, ..., updated_at=? WHERE id=? *)
SetTarget(tg, id, status, err, wa_id) ==
  [x \in DOMAIN tg |->
     IF x = id
     THEN [tg[x] EXCEPT !.status = status, !.last_error = err, !.wa_message_id = wa_id,
                        !.updated_at = now]
     ELSE tg[x]]

(* the completion sweep at the end of tick() *)
Pending(q) == Cardinality({id \in DOMAIN q : q[id].status # "done"})

(* the count without 'failed' *)
LeftNotFailed(tg, campaign_id) ==
  Cardinality({id \in DOMAIN tg :
                 tg[id].campaign_id = campaign_id /\ tg[id].status \in {"queued", "sending"}})

Left(tg, campaign_id) ==
  Cardinality({id \in DOMAIN tg :
                 tg[id].campaign_id = campaign_id /\ tg[id].status \in UnfinishedStatuses})

(* the sweep without the pending === 0 test *)
SweepAnyQueue(c, tg, q) ==
  [id \in DOMAIN c |->
     IF c[id].status = "running" /\ Left(tg, id) = 0
     THEN [c[id] EXCEPT !.status = "done"]
     ELSE c[id]]

Sweep(c, tg, q) ==
  IF Pending(q) = 0
  THEN [id \in DOMAIN c |->
          IF c[id].status = "running" /\ Left(tg, id) = 0
          THEN [c[id] EXCEPT !.status = "done"]
          ELSE c[id]]
  ELSE c

Job(t) == ticks[t].batch[ticks[t].i]

(* JavaScript runs one continuation at a time in a process: while an invocation
   of tick() is between two awaits, no other invocation of that process moves *)
ProcessFree(t) ==
  \A u \in Ticks \ {t} : WorkerOf(u) = WorkerOf(t) => ticks[u].pc # "run"

(* the for loop goes on to the next job, or the tick ends with the sweep *)
NextJob(t, tg1, q1) ==
  IF ticks[t].i < Len(ticks[t].batch)
  THEN /\ ticks' = [ticks EXCEPT ![t] = [@ EXCEPT !.pc = "run", !.i = @ + 1]]
       /\ campaigns' = campaigns
  ELSE /\ ticks' = [ticks EXCEPT ![t] = IdleTick]
       /\ campaigns' = Sweep(campaigns, tg1, q1)

(* setInterval fires: inWindow, fetchBatch, return on an empty batch *)
TickStart(t, limit) ==
  LET rows == SelectRows(queue, now, limit)
  IN /\ ticks[t].pc = "idle"
     /\ ProcessFree(t)
     /\ inWindow(now, WINDOW)
     /\ IF rows = <<>>
        THEN UNCHANGED <<queue, ticks, fetched>>
        ELSE /\ queue' = MarkProcessing(queue, rows)
             /\ ticks' = [ticks EXCEPT ![t] = [pc |-> "run", batch |-> rows, i |-> 1]]
             /\ fetched' = [id \in DOMAIN fetched |->
                              IF id \in Range(rows) THEN fetched[id] + 1 ELSE fetched[id]]
     /\ UNCHANGED <<now, campaigns, targets, messages, senders, calls, env, http, events, crm, hook>>

(* one iteration of the loop up to its first await *)
TickJob(t) ==
  LET job == Job(t)
      row == queue[job]
      tid == row.target_id
  IN /\ ticks[t].pc = "run"
     /\ IF Gated(campaigns, row.campaign_id) \/ tid \notin DOMAIN targets
        THEN /\ queue' = markDone(queue, job)
             /\ targets' = targets
             /\ calls' = calls
             /\ NextJob(t, targets, markDone(queue, job))
        ELSE IF ~PhoneOk(targets[tid].phone)
        THEN /\ targets' = SetTarget(targets, tid, "failed",
                                     [text |-> "telefono_invalido", len |-> 17],
                                     targets[tid].wa_message_id)
             /\ queue' = markDone(queue, job)
             /\ calls' = calls
             /\ NextJob(t, targets', queue')
        ELSE /\ targets' = SetTarget(targets, tid, "sending", targets[tid].last_error,
                                     targets[tid].wa_message_id)
             /\ calls' = [calls EXCEPT ![job] = @ + 1]
             /\ ticks' = [ticks EXCEPT ![t].pc = "await"]
             /\ UNCHANGED <<queue, campaigns>>
     /\ UNCHANGED <<now, messages, senders, fetched, env, http, events, crm, hook>>

(* the INSERT with its first two values swapped *)
MessageRowSwapped(campaign_id, target_id, wa_id) ==
  [campaign_id |-> target_id, target_id |-> campaign_id, wa_id |-> wa_id]

MessageRow(campaign_id, target_id, wa_id) ==
  [campaign_id |-> campaign_id, target_id |-> target_id, wa_id |-> wa_id]

(* sendTemplate resolved: resp.messages[0].id, or null when the response has none *)
TickSendOk(t, hasId) ==
  LET job == Job(t)
      row == queue[job]
      tid == row.target_id
      wa_id == IF hasId THEN Len(messages) + 1 ELSE NoId
  IN /\ ticks[t].pc = "await"
     /\ ProcessFree(t)
     /\ messages' = Append(messages, MessageRow(row.campaign_id, tid, wa_id))
     /\ targets' = SetTarget(targets, tid, "sent", targets[tid].last_error, wa_id)
     /\ queue' = markDone(queue, job)
     /\ ticks' = [ticks EXCEPT ![t].pc = "sleep"]
     /\ UNCHANGED <<now, campaigns, senders, calls, fetched, env, http, events, crm, hook>>

(* the catch block logging the rejected attempt as a message row as well *)
TickSendFailLogged(t, err, maxAttempts) ==
  LET job == Job(t)
      tid == queue[job].target_id
  IN /\ ticks[t].pc = "await"
     /\ ProcessFree(t)
     /\ queue[job].attempts < maxAttempts
     /\ targets' = SetTarget(targets, tid, "failed", slice(err, ERROR_SLICE),
                             targets[tid].wa_message_id)
     /\ queue' = markFailed(queue, job, SEND_BACKOFF_MS, now)
     /\ messages' = Append(messages, MessageRow(queue[job].campaign_id, tid, NoId))
     /\ NextJob(t, targets', queue')
     /\ UNCHANGED <<now, senders, calls, fetched, env, http, events, crm, hook>>

(* sendTemplate rejected: the catch block, then the loop goes on *)
TickSendFail(t, err, maxAttempts) ==
  LET job == Job(t)
      tid == queue[job].target_id
  IN /\ ticks[t].pc = "await"
     /\ ProcessFree(t)
     /\ queue[job].attempts < maxAttempts
     /\ targets' = SetTarget(targets, tid, "failed", slice(err, ERROR_SLICE),
                             targets[tid].wa_message_id)
     /\ queue' = markFailed(queue, job, SEND_BACKOFF_MS, now)
     /\ NextJob(t, targets', queue')
     /\ UNCHANGED <<now, messages, senders, calls, fetched, env, http, events, crm, hook>>

(* the rate-limit sleep is over *)
TickWake(t) ==
  /\ ticks[t].pc = "sleep"
  /\ ProcessFree(t)
  /\ NextJob(t, targets, queue)
  /\ UNCHANGED <<now, targets, queue, messages, senders, calls, fetched, env, http, events, crm, hook>>

(* queue rows waiting for their available_at *)
Waiting(q, t) == {id \in DOMAIN q : q[id].status = "queued" /\ q[id].available_at > t}

(* time passes until the next waiting row is due *)
ClockAdvance(maxNow) ==
  /\ Waiting(queue, now) # {}
  /\ SetMin({queue[id].available_at : id \in Waiting(queue, now)}) <= maxNow
  /\ now' = SetMin({queue[id].available_at : id \in Waiting(queue, now)})
  /\ UNCHANGED <<campaigns, targets, queue, messages, senders, ticks, calls, fetched, env, http, events, crm, hook>>

-----------------------------------------------------------------------------
(* The pipeline *)

Init ==
  /\ now = 0
  /\ campaigns = <<>>
  /\ targets = <<>>
  /\ queue = <<>>
  /\ messages = <<>>
  /\ senders = {}
  /\ ticks = [t \in Ticks |-> IdleTick]
  /\ calls = <<>>
  /\ fetched = <<>>
  /\ env = DefaultEnv
  /\ http = NoRequest
  /\ events = <<>>
  /\ crm = <<>>
  /\ hook = NoHook

Create ==
  \E list \in TargetLists, s \in RequestedSenders :
    CreateCampaign(list, s) /\ UNCHANGED http

CreateBasic == \E list \in TargetLists : CreateCampaignBasic(list) /\ UNCHANGED http

StartAny == \E c \in DOMAIN campaigns : Start(c) /\ UNCHANGED http

PauseAny == \E c \in DOMAIN campaigns : Pause(c) /\ UNCHANGED http

ResumeAny == \E c \in DOMAIN campaigns : Resume(c) /\ UNCHANGED http

CancelAny == \E c \in DOMAIN campaigns : Cancel(c) /\ UNCHANGED http

Fetch == \E t \in Ticks : TickStart(t, BatchSize)

Process == \E t \in Ticks : TickJob(t)

SendOk == \E t \in Ticks, hasId \in BOOLEAN : TickSendOk(t, hasId)

SendFail == \E t \in Ticks, err \in ErrorTexts : TickSendFail(t, err, MaxAttempts)

Wake == \E t \in Ticks : TickWake(t)

Clock == ClockAdvance(MaxClockSteps * SEND_BACKOFF_MS)

Next ==
  \/ Create
  \/ CreateBasic
  \/ StartAny
  \/ PauseAny
  \/ ResumeAny
  \/ CancelAny
  \/ Fetch
  \/ Process
  \/ SendOk
  \/ SendFail
  \/ Wake
  \/ Clock

Spec == Init /\ [][Next]_vars

(* the same pipeline with env BATCH_SIZE = SmallBatch *)
FetchSmall == \E t \in Ticks : TickStart(t, SmallBatch)

NextSmallBatch ==
  \/ Create
  \/ CreateBasic
  \/ StartAny
  \/ PauseAny
  \/ ResumeAny
  \/ CancelAny
  \/ FetchSmall
  \/ Process
  \/ SendOk
  \/ SendFail
  \/ Wake
  \/ Clock

SpecSmallBatch == Init /\ [][NextSmallBatch]_vars

-----------------------------------------------------------------------------
(* The retry loop of one queue row: a campaign of one target whose send has
   failed some number of times and has just been issued again *)

RECURSIVE DueAfter(_)
DueAfter(n) == IF n = 0 THEN 0 ELSE DueAfter(n - 1) + BackoffDelay(n, SEND_BACKOFF_MS)

InitRetry ==
  \E a \in 0..MaxPrevAttempts, err \in ErrorTexts :
    /\ now = DueAfter(a)
    /\ campaigns = <<[CampaignRow("S2", 1) EXCEPT !.status = "running"]>>
    /\ targets = <<[TargetRow(1, normalizePhone(PhoneA, DEFAULT_COUNTRY_CODE)) EXCEPT
                      !.status = "sending",
                      !.last_error = IF a = 0 THEN NoError ELSE slice(err, ERROR_SLICE)]>>
    /\ queue = <<[QueueRow(1, 1, "S2", DueAfter(a)) EXCEPT
                    !.attempts = a, !.status = "processing"]>>
    /\ messages = <<>>
    /\ senders = {"S2"}
    /\ ticks = [t \in Ticks |-> IF t = 1 THEN [pc |-> "await", batch |-> <<1>>, i |-> 1]
                                ELSE IdleTick]
    /\ calls = <<a + 1>>
    /\ fetched = <<a + 1>>
    /\ env = DefaultEnv
    /\ http = NoRequest
    /\ events = <<>>
    /\ crm = <<>>
    /\ hook = NoHook

RetryFail == \E err \in ErrorTexts : TickSendFail(1, err, MaxPrevAttempts + 1)

RetryClock == ClockAdvance(DueAfter(MaxPrevAttempts + 1))

RetryFetch == TickStart(1, BatchSize)

RetryJob == TickJob(1)

RetryOk == \E hasId \in BOOLEAN : TickSendOk(1, hasId)

RetryWake == TickWake(1)

NextRetry ==
  \/ RetryFail
  \/ RetryClock
  \/ RetryFetch
  \/ RetryJob
  \/ RetryOk
  \/ RetryWake

SpecRetry == InitRetry /\ [][NextRetry]_vars

-----------------------------------------------------------------------------
(* The start scenario: a campaign of five targets and a campaign of one, one
   tick at a time, no retry of a failed send *)

InitScenario ==
  /\ now = 0
  /\ campaigns = CreatedCampaigns(CreatedCampaigns(<<>>, <<>>, ScenarioPhones, "S2"),
                                  CreatedTargets(<<>>, <<>>, ScenarioPhones),
                                  <<PhoneA>>, NoSender)
  /\ targets = CreatedTargets(CreatedCampaigns(<<>>, <<>>, ScenarioPhones, "S2"),
                              CreatedTargets(<<>>, <<>>, ScenarioPhones),
                              <<PhoneA>>)
  /\ queue = <<>>
  /\ messages = <<>>
  /\ senders = {"S2", WA_PHONE_NUMBER_ID}
  /\ ticks = [t \in Ticks |-> IdleTick]
  /\ calls = <<>>
  /\ fetched = <<>>
  /\ env = DefaultEnv
  /\ http = NoRequest
  /\ events = <<>>
  /\ crm = <<>>
  /\ hook = NoHook

ScenarioStart ==
  \E c \in DOMAIN campaigns : startCampaign(c, ScenarioQueue) /\ UNCHANGED http

ScenarioFetch == TickStart(1, BatchSize)

ScenarioJob == TickJob(1)

ScenarioOk == TickSendOk(1, TRUE)

ScenarioFail == TickSendFail(1, TimeoutError, MaxAttempts)

ScenarioWake == TickWake(1)

NextScenario ==
  \/ ScenarioStart
  \/ ScenarioFetch
  \/ ScenarioJob
  \/ ScenarioOk
  \/ ScenarioFail
  \/ ScenarioWake

SpecScenario == InitScenario /\ [][NextScenario]_vars

-----------------------------------------------------------------------------
(* The worker under a delivery window: a started campaign of two targets, the
   clock moving through two days *)

NightWindow == <<"2", "2", ":", "0", "0", "-", "0", "6", ":", "0", "0">>
DayWindow == <<"0", "9", ":", "0", "0", "-", "1", "8", ":", "0", "0">>
OpenEndWindow == <<"2", "2", ":", "0", "0", "-">>
Windows == {<<>>, NightWindow, DayWindow, OpenEndWindow}

(* epoch ms of hour h, minute m on day d *)
At(d, h, m) == ((d * 24 + h) * 60 + m) * 60000

ClockTimes ==
  {At(0, 8, 59), At(0, 9, 0), At(0, 12, 0), At(0, 18, 0), At(0, 18, 1), At(0, 21, 59),
   At(0, 22, 0), At(0, 23, 30), At(1, 0, 0), At(1, 6, 0), At(1, 6, 1), At(1, 12, 0)}

InitWindow ==
  \E w \in Windows :
    /\ now = At(0, 8, 59)
    /\ campaigns = CreatedCampaigns(<<>>, <<>>, <<PhoneA, PhoneB>>, NoSender)
    /\ targets = CreatedTargets(<<>>, <<>>, <<PhoneA, PhoneB>>)
    /\ queue = <<>>
    /\ messages = <<>>
    /\ senders = {WA_PHONE_NUMBER_ID}
    /\ ticks = [t \in Ticks |-> IdleTick]
    /\ calls = <<>>
    /\ fetched = <<>>
    /\ env = [DefaultEnv EXCEPT !.DELIVERY_WINDOW = w]
    /\ http = NoRequest
    /\ events = <<>>
    /\ crm = <<>>
    /\ hook = NoHook

(* time passes *)
WindowClock ==
  /\ \E t \in ClockTimes : t > now /\ now' = t
  /\ UNCHANGED <<campaigns, targets, queue, messages, senders, ticks, calls, fetched,
                 env, http, events, crm, hook>>

WindowStart == startCampaign(1, MaxQueue) /\ UNCHANGED http

WindowFetch == TickStart(1, SmallBatch)

NextWindow ==
  \/ WindowClock
  \/ WindowStart
  \/ WindowFetch
  \/ ScenarioJob
  \/ ScenarioOk
  \/ ScenarioWake

SpecWindow == InitWindow /\ [][NextWindow]_vars

-----------------------------------------------------------------------------
(* The queue library called on its own: enqueueTarget for a target of either
   campaign while the worker drains the queue *)

EnqueuedTargets == {1, 6}

Enqueue ==
  \E tid \in EnqueuedTargets :
    /\ Len(queue) < MaxEnqueued
    /\ queue' = enqueueTarget(queue, targets[tid].campaign_id, tid,
                              campaigns[targets[tid].campaign_id].sender_phone_id, now)
    /\ calls' = Append(calls, 0)
    /\ fetched' = Append(fetched, 0)
    /\ UNCHANGED <<now, campaigns, targets, messages, senders, ticks, env, http, events, crm, hook>>

NextEnqueue ==
  \/ Enqueue
  \/ ScenarioFetch
  \/ ScenarioJob
  \/ ScenarioOk
  \/ ScenarioFail
  \/ ScenarioWake
  \/ Clock

SpecEnqueue == InitScenario /\ [][NextEnqueue]_vars

-----------------------------------------------------------------------------
(* The campaign API as its client sees it: every request is answered, and the
   last request and its response are kept in http; one tick at a time *)

Ok == [ok |-> TRUE]

RespondTo(req, route, id, status, body) ==
  http' = [route |-> route, id |-> id, status |-> status, body |-> body, req |-> req]

Respond(route, id, status, body) == RespondTo(<<>>, route, id, status, body)

(* parseTargetsInput: toTargetObject drops an entry whose phone is empty *)
RECURSIVE parseTargetsInput(_)
parseTargetsInput(raw) ==
  IF raw = <<>> THEN <<>>
  ELSE IF Head(raw) = <<>> THEN parseTargetsInput(Tail(raw))
  ELSE <<Head(raw)>> \o parseTargetsInput(Tail(raw))

ErrorBody(text) == [ok |-> FALSE, error |-> text]

(* inserted, skipped_invalid and duplicates as createCampaignRecord returns them *)
CreateResult(c, tg, list, requestedSender) ==
  LET inserted == Len(CreatedTargets(c, tg, list)) - Len(tg)
  IN [ok |-> TRUE,
      campaign_id |-> Len(c) + 1,
      total_targets |-> inserted,
      skipped_invalid |-> Len(list) - Len(normalizeTargets(list)),
      duplicates |-> Len(normalizeTargets(list)) - inserted,
      sender_phone_id |-> ensureSender(requestedSender)]

(* POST /api/campaigns: 400 without targets, 500 when createCampaignRecord throws *)
PostCampaigns(raw, requestedSender) ==
  LET list == parseTargetsInput(raw)
  IN IF list = <<>>
     THEN /\ RespondTo(raw, "create", 0, 400, ErrorBody("Parametros invalidos"))
          /\ UNCHANGED <<now, campaigns, targets, queue, messages, senders, ticks, calls,
                         fetched, env, events, crm, hook>>
     ELSE /\ CreateCampaign(list, requestedSender)
          /\ IF normalizeTargets(list) = <<>>
             THEN RespondTo(raw, "create", 0, 500,
                            ErrorBody("No hay destinatarios validos para la campana"))
             ELSE RespondTo(raw, "create", Len(campaigns) + 1, 200,
                            CreateResult(campaigns, targets, list, requestedSender))

(* res.json({ ok: true, ...result }) with result = { enqueued: targets.length } *)
StartReply(tg, campaign_id) == [ok |-> TRUE, enqueued |-> Len(StartTargets(tg, campaign_id))]

ApiCreate ==
  \E list \in TargetLists, s \in RequestedSenders :
    PostCampaigns(list, s)

ApiStart ==
  \E c \in DOMAIN campaigns :
    Start(c) /\ Respond("start", c, 200, StartReply(targets, c))

ApiPause == \E c \in DOMAIN campaigns : Pause(c) /\ Respond("pause", c, 200, Ok)

ApiResume == \E c \in DOMAIN campaigns : Resume(c) /\ Respond("resume", c, 200, Ok)

ApiCancel == \E c \in DOMAIN campaigns : Cancel(c) /\ Respond("cancel", c, 200, Ok)

NextApi ==
  \/ ApiCreate
  \/ ApiStart
  \/ ApiPause
  \/ ApiResume
  \/ ApiCancel
  \/ ScenarioFetch
  \/ ScenarioJob
  \/ ScenarioOk
  \/ ScenarioFail
  \/ ScenarioWake
  \/ Clock

SpecApi == Init /\ [][NextApi]_vars

-----------------------------------------------------------------------------
(* The provider webhook: POST /webhooks/wa with a signature header and a
   payload of status callbacks and inbound messages *)

(* crypto.createHmac('sha256', secret).update(rawBody): equal digests only for
   equal key and body *)
hmac(secret, rawBody) == [key |-> secret, msg |-> rawBody]

(* the x-hub-signature-256 header `sha256=${expected}` *)
SignatureHeader(scheme, secret, rawBody) ==
  [present |-> TRUE, scheme |-> scheme, mac |-> hmac(secret, rawBody)]

EmptyPayload == [statuses |-> <<>>, messages |-> <<>>]

NoSignature == [present |-> FALSE, scheme |-> "", mac |-> hmac("", EmptyPayload)]

(* the header passes when no secret is set, fails when it is missing *)
verifyWaSignaturePresent(secret, signature, rawBody) ==
  IF secret = "" THEN TRUE ELSE signature.present

verifyWaSignature(secret, signature, rawBody) ==
  IF secret = "" THEN TRUE
  ELSE IF ~signature.present THEN FALSE
  ELSE signature = SignatureHeader("sha256", secret, rawBody)

recordEvent(ev, waMessageId, type) ==
  Append(ev, [wa_message_id |-> waMessageId, type |-> type])

(* the lookup falling back to the first row of the table *)
TargetByMessageIdOrFirst(tg, id) ==
  IF id = NoId \/ \A t \in DOMAIN tg : tg[t].wa_message_id # id
  THEN (IF tg = <<>> THEN NoId ELSE 1)
  ELSE SetMin({t \in DOMAIN tg : tg[t].wa_message_id = id})

(* SELECT * FROM campaign_targets WHERE wa_message_id=? : the first row, NoId if none *)
TargetByMessageId(tg, id) ==
  IF id = NoId \/ \A t \in DOMAIN tg : tg[t].wa_message_id # id THEN NoId
  ELSE SetMin({t \in DOMAIN tg : tg[t].wa_message_id = id})

(* the query without ORDER BY updated_at DESC *)
TargetsByPhoneAnyAge(tg, phone) == {t \in DOMAIN tg : tg[t].phone = phone}

(* SELECT * FROM campaign_targets WHERE phone=? ORDER BY updated_at DESC LIMIT 1:
   the rows the query can return, more than one when the latest updated_at is shared *)
TargetsByPhone(tg, phone) ==
  {t \in DOMAIN tg :
     /\ tg[t].phone = phone
     /\ \A u \in DOMAIN tg : tg[u].phone = phone => tg[u].updated_at <= tg[t].updated_at}

(* UPDATE campaign_targets SET updated_at=? WHERE id=? *)
TouchTarget(tg, id) ==
  [x \in DOMAIN tg |-> IF x = id THEN [tg[x] EXCEPT !.updated_at = now] ELSE tg[x]]

(* status.errors.map((e) => e.title || e.message).filter(Boolean).join('; '),
   or status.status when errors is not an array *)
ErrorTitle(e) == IF e.title # NoError THEN e.title ELSE e.message

RECURSIVE JoinTitles(_)
JoinTitles(items) ==
  IF items = <<>> THEN NoError
  ELSE LET head == ErrorTitle(Head(items))
           rest == JoinTitles(Tail(items))
       IN IF head = NoError THEN rest
          ELSE IF rest = NoError THEN head
          ELSE [text |-> head.text \o "; " \o rest.text, len |-> head.len + 2 + rest.len]

errText(st) ==
  IF st.errors.isArray THEN JoinTitles(st.errors.items)
  ELSE [text |-> st.status, len |-> 6]

(* notifyBitrix: nothing without CRM metadata on the target; otherwise the
   timeline comment is pushed, and a failed push is caught and logged *)
PushOutcomes == {"nometa", "pushed", "push_failed"}

notifyBitrix(c, outcome, target, kind) ==
  IF outcome = "nometa" THEN c
  ELSE Append(c, [target |-> target, kind |-> kind, ok |-> outcome = "pushed"])

(* a statusMap that also knows 'deleted' *)
CallbackStatusesAndDeleted == {"sent", "delivered", "read", "failed", "deleted"}

(* const statusMap = { sent, delivered, read, failed } *)
CallbackStatuses == {"sent", "delivered", "read", "failed"}

(* the handler goes on to the next element of the list it is in *)
HookNext(kind) ==
  IF kind = "status"
  THEN [hook EXCEPT !.pc = "loop", !.statuses = Tail(@), !.target = NoId, !.kind = ""]
  ELSE [hook EXCEPT !.pc = "loop", !.messages = Tail(@), !.target = NoId, !.kind = ""]

(* the request arrives: verifyWaSignature, 403 when it fails *)
HookReceive(signature, body) ==
  LET req == [signature |-> signature, body |-> body]
  IN /\ hook.pc = "idle"
     /\ Len(events) + Len(body.statuses) + Len(body.messages) <= MaxEvents
     /\ IF verifyWaSignature(env.WA_APP_SECRET, signature, body)
        THEN /\ hook' = [NoHook EXCEPT !.pc = "loop", !.req = req,
                                       !.statuses = body.statuses,
                                       !.messages = body.messages]
             /\ UNCHANGED http
        ELSE /\ RespondTo(req, "webhook", 0, 403, ErrorBody("Firma invalida"))
             /\ UNCHANGED hook
     /\ UNCHANGED <<now, campaigns, targets, queue, messages, senders, ticks, calls,
                    fetched, env, events, crm>>

(* the statuses loop: an element without id is skipped, the others are recorded *)
HookStatusRecord ==
  LET st == Head(hook.statuses)
  IN /\ hook.pc = "loop"
     /\ hook.statuses # <<>>
     /\ IF st.id = NoId
        THEN /\ hook' = HookNext("status")
             /\ UNCHANGED events
        ELSE /\ events' = recordEvent(events, st.id, st.status)
             /\ hook' = [hook EXCEPT !.pc = "status"]
     /\ UNCHANGED <<now, campaigns, targets, queue, messages, senders, ticks, calls,
                    fetched, env, http, crm>>

(* the target is looked up by wa_message_id and updated by statusMap *)
HookStatusApply ==
  LET st == Head(hook.statuses)
      t == TargetByMessageId(targets, st.id)
  IN /\ hook.pc = "status"
     /\ IF t = NoId
        THEN /\ hook' = HookNext("status")
             /\ UNCHANGED targets
        ELSE IF st.status = "failed"
        THEN /\ targets' = SetTarget(targets, t, "failed",
                                     slice(errText(st), CALLBACK_ERROR_SLICE),
                                     targets[t].wa_message_id)
             /\ hook' = [hook EXCEPT !.pc = "notify", !.target = t, !.kind = "status"]
        ELSE IF st.status \in CallbackStatuses
        THEN /\ targets' = SetTarget(targets, t, st.status, targets[t].last_error,
                                     targets[t].wa_message_id)
             /\ hook' = [hook EXCEPT !.pc = "notify", !.target = t, !.kind = "status"]
        ELSE /\ targets' = TouchTarget(targets, t)
             /\ hook' = HookNext("status")
     /\ UNCHANGED <<now, campaigns, queue, messages, senders, ticks, calls, fetched,
                    env, http, events, crm>>

(* the messages loop: every element is recorded as a reply *)
HookMessageRecord ==
  LET msg == Head(hook.messages)
  IN /\ hook.pc = "loop"
     /\ hook.statuses = <<>>
     /\ hook.messages # <<>>
     /\ events' = recordEvent(events, msg.id, "reply")
     /\ hook' = [hook EXCEPT !.pc = "reply"]
     /\ UNCHANGED <<now, campaigns, targets, queue, messages, senders, ticks, calls,
                    fetched, env, http, crm>>

(* the target of a reply: by context id, else by the sender's phone *)
ReplyTargets(tg, msg) ==
  IF TargetByMessageId(tg, msg.context) # NoId THEN {TargetByMessageId(tg, msg.context)}
  ELSE IF msg.from # <<>> THEN TargetsByPhone(tg, normalizePhone(msg.from, <<>>))
  ELSE {}

HookMessageApply ==
  LET msg == Head(hook.messages)
      found == ReplyTargets(targets, msg)
  IN /\ hook.pc = "reply"
     /\ IF found = {}
        THEN /\ hook' = HookNext("reply")
             /\ UNCHANGED targets
        ELSE \E t \in found :
               /\ targets' = TouchTarget(targets, t)
               /\ hook' = [hook EXCEPT !.pc = "notify", !.target = t, !.kind = "reply"]
     /\ UNCHANGED <<now, campaigns, queue, messages, senders, ticks, calls, fetched,
                    env, http, events, crm>>

(* await notifyBitrix(...) with the exception of the push propagating *)
HookNotifyThrows(outcome) ==
  /\ hook.pc = "notify"
  /\ crm' = notifyBitrix(crm, outcome, hook.target, hook.kind)
  /\ IF outcome = "push_failed"
     THEN /\ hook' = NoHook
          /\ RespondTo(hook.req, "webhook", 0, 500, ErrorBody("push"))
     ELSE /\ hook' = HookNext(hook.kind)
          /\ UNCHANGED http
  /\ UNCHANGED <<now, campaigns, targets, queue, messages, senders, ticks, calls,
                 fetched, env, events>>

(* await notifyBitrix(...) returns, whatever the push did *)
HookNotify(outcome) ==
  /\ hook.pc = "notify"
  /\ crm' = notifyBitrix(crm, outcome, hook.target, hook.kind)
  /\ hook' = HookNext(hook.kind)
  /\ UNCHANGED <<now, campaigns, targets, queue, messages, senders, ticks, calls,
                 fetched, env, http, events>>

(* res.json({ ok: true }) *)
HookRespond ==
  /\ hook.pc = "loop"
  /\ hook.statuses = <<>>
  /\ hook.messages = <<>>
  /\ RespondTo(hook.req, "webhook", 0, 200, Ok)
  /\ hook' = NoHook
  /\ UNCHANGED <<now, campaigns, targets, queue, messages, senders, ticks, calls,
                 fetched, env, events, crm>>

(* a second passes *)
HookClock ==
  /\ now < MaxHookClock * 1000
  /\ now' = now + 1000
  /\ UNCHANGED <<campaigns, targets, queue, messages, senders, ticks, calls, fetched,
                 env, http, events, crm, hook>>

NoErrors == [isArray |-> FALSE, items |-> <<>>]

StatusEvent(id, status) == [id |-> id, status |-> status, errors |-> NoErrors]

ProviderErrors ==
  [isArray |-> TRUE,
   items |-> <<[title |-> [text |-> "Rate limit", len |-> 10], message |-> NoError],
               [title |-> NoError, message |-> [text |-> "blocked", len |-> 400]]>>]

Reply(id, context, from) == [id |-> id, context |-> context, from |-> from]

(* the country code and the national number, as the provider writes a sender *)
FromC == <<"+", "5", "1", " ", "9", "1", "8", "1", "3", "1", "0", "8", "4">>

Payloads ==
  { EmptyPayload,
    [statuses |-> <<StatusEvent(1, "delivered")>>, messages |-> <<>>],
    [statuses |-> <<StatusEvent(9, "read")>>, messages |-> <<>>],
    [statuses |-> <<StatusEvent(NoId, "sent")>>, messages |-> <<>>],
    [statuses |-> <<StatusEvent(1, "deleted")>>, messages |-> <<>>],
    [statuses |-> <<StatusEvent(1, "failed")>>, messages |-> <<>>],
    [statuses |-> <<[StatusEvent(2, "failed") EXCEPT !.errors = ProviderErrors]>>,
     messages |-> <<Reply(7, 1, <<>>)>>],
    [statuses |-> <<>>, messages |-> <<Reply(8, NoId, FromC)>>],
    [statuses |-> <<>>, messages |-> <<Reply(8, 9, FromC)>>],
    [statuses |-> <<>>, messages |-> <<Reply(NoId, 2, FromC)>>] }

Secrets == {"", "k1"}

(* the headers a request for this body can carry: none, the right one, one
   made with another key, one made for another body, one of another scheme *)
Signatures(body) ==
  { NoSignature,
    SignatureHeader("sha256", "k1", body),
    SignatureHeader("sha256", "k2", body),
    SignatureHeader("sha256", "k1", EmptyPayload),
    SignatureHeader("sha1", "k1", body) }

(* two campaigns: targets 1 and 2 sent with provider ids 1 and 2, and the same
   phone as a queued target of both campaigns *)
InitWebhook ==
  \E secret \in Secrets :
    /\ now = 0
    /\ campaigns = <<[CampaignRow(WA_PHONE_NUMBER_ID, 3) EXCEPT !.status = "running"],
                     CampaignRow(WA_PHONE_NUMBER_ID, 1)>>
    /\ targets = <<[TargetRow(1, normalizePhone(PhoneA, DEFAULT_COUNTRY_CODE)) EXCEPT
                      !.status = "sent", !.wa_message_id = 1],
                   [TargetRow(1, normalizePhone(PhoneB, DEFAULT_COUNTRY_CODE)) EXCEPT
                      !.status = "sent", !.wa_message_id = 2],
                   TargetRow(1, normalizePhone(PhoneC, DEFAULT_COUNTRY_CODE)),
                   TargetRow(2, normalizePhone(PhoneC, DEFAULT_COUNTRY_CODE))>>
    /\ queue = <<>>
    /\ messages = <<MessageRow(1, 1, 1), MessageRow(1, 2, 2)>>
    /\ senders = {WA_PHONE_NUMBER_ID}
    /\ ticks = [t \in Ticks |-> IdleTick]
    /\ calls = <<>>
    /\ fetched = <<>>
    /\ env = [DefaultEnv EXCEPT !.WA_APP_SECRET = secret]
    /\ http = NoRequest
    /\ events = <<>>
    /\ crm = <<>>
    /\ hook = NoHook

(* a client that knows of no secret sends no header or the one of its own key *)
Webhook ==
  \E body \in Payloads :
    \E signature \in IF env.WA_APP_SECRET = ""
                      THEN {NoSignature, SignatureHeader("sha256", "k2", body)}
                      ELSE Signatures(body) :
      HookReceive(signature, body)

WebhookNotify == \E outcome \in PushOutcomes : HookNotify(outcome)

NextWebhook ==
  \/ Webhook
  \/ HookStatusRecord
  \/ HookStatusApply
  \/ HookMessageRecord
  \/ HookMessageApply
  \/ WebhookNotify
  \/ HookRespond
  \/ HookClock

SpecWebhook == InitWebhook /\ [][NextWebhook]_vars

-----------------------------------------------------------------------------
(* Campaign creation on its own: POST /api/campaigns of the server and of the
   basic server, called with lists that hold valid, invalid, repeated and
   empty entries *)

PhonePlus == <<"+", "5", "1", "9", "1", "8", "1", "3", "1", "0", "8", "2">>
PhoneTiny == <<"1", "2", "3">>
PhoneLetters == <<"a", "b", "c">>

CreateLists ==
  { <<>>,
    <<PhoneA, PhoneB>>,
    <<PhonePlus, PhoneA>>,
    <<PhoneA, PhoneTiny>>,
    <<PhoneTiny>>,
    <<PhoneLetters, PhoneTiny>>,
    <<PhoneA, <<>>, PhoneLetters>>,
    <<PhoneA, PhoneTiny, PhoneA, PhoneB>> }

CreateSenders == {NoSender, "S2"}

CreateAny == \E raw \in CreateLists, s \in CreateSenders : PostCampaigns(raw, s)

CreateBasicAny ==
  \E raw \in CreateLists :
    /\ CreateCampaignBasic(raw)
    /\ RespondTo(raw, "create_basic", Len(campaigns) + 1, 200, Ok)

NextCreate ==
  \/ CreateAny
  \/ CreateBasicAny

SpecCreate == Init /\ [][NextCreate]_vars

-----------------------------------------------------------------------------
(* Template variables: the template of the campaigns has the body
   "Hola {{1}}, tu pedido {{2}}"; a send supplies the values of its placeholders.
   Three places build the components of a send: the worker's tick, the
   diagnostics server and the CRM panel *)

TemplateBody == <<"Hola ", "{{1}}", ", tu pedido ", "{{2}}">>

(* Number(match.replace(/[^0-9]/g, '')) of a token matching /{{(\d+)}}/, 0 for text *)
SlotNumber(token) ==
  CASE token = "{{1}}" -> 1
    [] token = "{{2}}" -> 2
    [] token = "{{3}}" -> 3
    [] OTHER -> 0

(* placeholderSlots: the distinct placeholder numbers, ascending *)
placeholderSlots(text) == Asc({SlotNumber(text[i]) : i \in DOMAIN text} \ {0})

(* buildComponents of the diagnostics server: throws on too few body values *)
buildComponents(text, variables) ==
  LET slots == placeholderSlots(text)
  IN IF slots # <<>> /\ Len(variables) < Len(slots)
     THEN [thrown |-> TRUE, parameters |-> <<>>]
     ELSE [thrown |-> FALSE, parameters |-> Take(variables, Len(slots))]

(* deriveBodyValues of the CRM panel: missing values are filled with '' *)
RECURSIVE Pad(_, _)
Pad(values, expected) ==
  IF Len(values) < expected THEN Pad(Append(values, ""), expected) ELSE values

deriveBodyValues(text, variablesInput) ==
  LET expected == Len(placeholderSlots(text))
  IN IF expected = 0 THEN <<>> ELSE Take(Pad(variablesInput, expected), expected)

VariableSets == {<<"Ana">>, <<"Ana", "A-17">>}

(* POST /send-template of the diagnostics server: one recipient, one candidate *)
DoctorSend(variables, accepted) ==
  LET built == buildComponents(TemplateBody, variables)
  IN /\ RespondTo(variables, "doctor", 0, 200,
                  [ok |-> TRUE, called |-> ~built.thrown,
                   sent |-> ~built.thrown /\ accepted,
                   parameters |-> built.parameters])
     /\ UNCHANGED <<now, campaigns, targets, queue, messages, senders, ticks, calls,
                    fetched, env, events, crm, hook>>

(* the send form of the CRM panel: one recipient *)
PanelSend(variablesInput, accepted) ==
  /\ RespondTo(variablesInput, "panel", 0, 200,
               [ok |-> TRUE, called |-> TRUE, sent |-> accepted,
                parameters |-> deriveBodyValues(TemplateBody, variablesInput)])
  /\ UNCHANGED <<now, campaigns, targets, queue, messages, senders, ticks, calls,
                 fetched, env, events, crm, hook>>

(* a running campaign of two targets, the first with one variable, the second
   with two, both enqueued *)
InitTemplate ==
  /\ now = 0
  /\ campaigns = <<[CampaignRow(WA_PHONE_NUMBER_ID, 2) EXCEPT !.status = "running"]>>
  /\ targets = <<[TargetRow(1, normalizePhone(PhoneA, DEFAULT_COUNTRY_CODE)) EXCEPT
                    !.vars = <<"Ana">>],
                 [TargetRow(1, normalizePhone(PhoneB, DEFAULT_COUNTRY_CODE)) EXCEPT
                    !.vars = <<"Ana", "A-17">>]>>
  /\ queue = <<QueueRow(1, 1, WA_PHONE_NUMBER_ID, 0), QueueRow(1, 2, WA_PHONE_NUMBER_ID, 0)>>
  /\ messages = <<>>
  /\ senders = {WA_PHONE_NUMBER_ID}
  /\ ticks = [t \in Ticks |-> IdleTick]
  /\ calls = <<0, 0>>
  /\ fetched = <<0, 0>>
  /\ env = DefaultEnv
  /\ http = NoRequest
  /\ events = <<>>
  /\ crm = <<>>
  /\ hook = NoHook

TemplateFetch == TickStart(1, BatchSize)

TemplateJob == TickJob(1)

TemplateOk == TickSendOk(1, TRUE)

TemplateFail == TickSendFail(1, ProviderError, MaxAttempts)

TemplateWake == TickWake(1)

TemplateClock == ClockAdvance(MaxClockSteps * SEND_BACKOFF_MS)

TemplateDoctor == \E v \in VariableSets, accepted \in BOOLEAN : DoctorSend(v, accepted)

TemplatePanel == \E v \in VariableSets, accepted \in BOOLEAN : PanelSend(v, accepted)

NextTemplate ==
  \/ TemplateFetch
  \/ TemplateJob
  \/ TemplateOk
  \/ TemplateFail
  \/ TemplateWake
  \/ TemplateClock
  \/ TemplateDoctor
  \/ TemplatePanel

SpecTemplate == InitTemplate /\ [][NextTemplate]_vars

-----------------------------------------------------------------------------
(* The pipeline with ticks that abort: a statement of the loop outside the
   inner try (the SELECTs, markDone, the catch block itself) throws, the outer
   catch logs the error and tick() returns without the sweep *)

TickAbort(t) ==
  /\ ticks[t].pc \in {"run", "await"}
  /\ ProcessFree(t)
  /\ ticks' = [ticks EXCEPT ![t] = IdleTick]
  /\ UNCHANGED <<now, campaigns, targets, queue, messages, senders, calls, fetched,
                 env, http, events, crm, hook>>

Abort == \E t \in Ticks : TickAbort(t)

AbortStart == \E c \in DOMAIN campaigns : startCampaign(c, MaxAbortQueue) /\ UNCHANGED http

(* a campaign of two targets has been created *)
InitAbort ==
  /\ now = 0
  /\ campaigns = CreatedCampaigns(<<>>, <<>>, <<PhoneA, PhoneB>>, NoSender)
  /\ targets = CreatedTargets(<<>>, <<>>, <<PhoneA, PhoneB>>)
  /\ queue = <<>>
  /\ messages = <<>>
  /\ senders = {WA_PHONE_NUMBER_ID}
  /\ ticks = [t \in Ticks |-> IdleTick]
  /\ calls = <<>>
  /\ fetched = <<>>
  /\ env = DefaultEnv
  /\ http = NoRequest
  /\ events = <<>>
  /\ crm = <<>>
  /\ hook = NoHook

NextAbort ==
  \/ AbortStart
  \/ ResumeAny
  \/ Fetch
  \/ Process
  \/ SendOk
  \/ SendFail
  \/ Wake
  \/ Clock
  \/ Abort

SpecAbort == InitAbort /\ [][NextAbort]_vars

-----------------------------------------------------------------------------
(* The pipeline as it runs on: the timer fires tick() every LOOP_MS, a provider
   call resolves or rejects, the rate-limit sleep ends, time passes.  Whether
   a client calls start again is up to the client *)

LiveStart == \E c \in DOMAIN campaigns : startCampaign(c, MaxAbortQueue) /\ UNCHANGED http

NextLive ==
  \/ LiveStart
  \/ Fetch
  \/ Process
  \/ SendOk
  \/ SendFail
  \/ Wake
  \/ Clock

SpecLive ==
  /\ InitAbort
  /\ [][NextLive]_vars
  /\ WF_vars(Fetch)
  /\ WF_vars(Process)
  /\ WF_vars(SendOk \/ SendFail)
  /\ WF_vars(Wake)
  /\ WF_vars(Clock)

-----------------------------------------------------------------------------
(* The pipeline when the window is open and every provider call resolves: a
   client starts the campaign, the timer fires tick(), the sleep ends *)

NextSucceed ==
  \/ LiveStart
  \/ Fetch
  \/ Process
  \/ SendOk
  \/ Wake

SpecSucceed ==
  /\ InitAbort
  /\ [][NextSucceed]_vars
  /\ WF_vars(Fetch)
  /\ WF_vars(Process)
  /\ WF_vars(SendOk)
  /\ WF_vars(Wake)

-----------------------------------------------------------------------------
(* Pause and resume: a client starts the campaign, pauses it and resumes it,
   one request after the other and each once, while the worker runs and every
   provider call resolves *)

(* a campaign of three targets has been created *)
InitPauseResume ==
  /\ now = 0
  /\ campaigns = CreatedCampaigns(<<>>, <<>>, <<PhoneA, PhoneB, PhoneC>>, NoSender)
  /\ targets = CreatedTargets(<<>>, <<>>, <<PhoneA, PhoneB, PhoneC>>)
  /\ queue = <<>>
  /\ messages = <<>>
  /\ senders = {WA_PHONE_NUMBER_ID}
  /\ ticks = [t \in Ticks |-> IdleTick]
  /\ calls = <<>>
  /\ fetched = <<>>
  /\ env = DefaultEnv
  /\ http = NoRequest
  /\ events = <<>>
  /\ crm = <<>>
  /\ hook = NoHook

StartOnce ==
  /\ http.route = ""
  /\ startCampaign(1, MaxAbortQueue)
  /\ Respond("start", 1, 200, StartReply(targets, 1))

PauseOnce == http.route = "start" /\ Pause(1) /\ Respond("pause", 1, 200, Ok)

ResumeOnce == http.route = "pause" /\ Resume(1) /\ Respond("resume", 1, 200, Ok)

NextPauseResume ==
  \/ StartOnce
  \/ PauseOnce
  \/ ResumeOnce
  \/ Fetch
  \/ Process
  \/ SendOk
  \/ Wake

SpecPauseResume ==
  /\ InitPauseResume
  /\ [][NextPauseResume]_vars
  /\ WF_vars(Fetch)
  /\ WF_vars(Process)
  /\ WF_vars(SendOk)
  /\ WF_vars(Wake)

-----------------------------------------------------------------------------
(* Callbacks in any order: the provider reports sent, delivered and read for a
   message in whatever order its requests arrive, while a client may cancel
   the campaign.  Target 1 was sent with provider id 1; start was called again
   while target 2 was still queued, so target 2 has two queue entries: it was
   sent with provider id 2 through the first, and a tick is awaiting the
   provider call of the second *)

OrderPayloads ==
  { [statuses |-> <<StatusEvent(1, "read")>>, messages |-> <<>>],
    [statuses |-> <<StatusEvent(1, "delivered")>>, messages |-> <<>>],
    [statuses |-> <<StatusEvent(1, "sent")>>, messages |-> <<>>],
    [statuses |-> <<StatusEvent(2, "delivered")>>, messages |-> <<>>] }

InitOrder ==
  /\ now = 0
  /\ campaigns = <<[CampaignRow(WA_PHONE_NUMBER_ID, 2) EXCEPT !.status = "running"]>>
  /\ targets = <<[TargetRow(1, normalizePhone(PhoneA, DEFAULT_COUNTRY_CODE)) EXCEPT
                    !.status = "sent", !.wa_message_id = 1],
                 [TargetRow(1, normalizePhone(PhoneB, DEFAULT_COUNTRY_CODE)) EXCEPT
                    !.status = "sending", !.wa_message_id = 2]>>
  /\ queue = <<[QueueRow(1, 1, WA_PHONE_NUMBER_ID, 0) EXCEPT !.status = "done"],
               [QueueRow(1, 2, WA_PHONE_NUMBER_ID, 0) EXCEPT !.status = "done"],
               [QueueRow(1, 2, WA_PHONE_NUMBER_ID, 0) EXCEPT !.status = "processing"]>>
  /\ messages = <<MessageRow(1, 1, 1), MessageRow(1, 2, 2)>>
  /\ senders = {WA_PHONE_NUMBER_ID}
  /\ ticks = [t \in Ticks |-> IF t = 1 THEN [pc |-> "await", batch |-> <<3>>, i |-> 1]
                              ELSE IdleTick]
  /\ calls = <<1, 1, 1>>
  /\ fetched = <<1, 1, 1>>
  /\ env = DefaultEnv
  /\ http = NoRequest
  /\ events = <<>>
  /\ crm = <<>>
  /\ hook = NoHook

OrderWebhook == \E body \in OrderPayloads : HookReceive(NoSignature, body)

OrderCancel == Cancel(1) /\ UNCHANGED http

NextOrder ==
  \/ OrderWebhook
  \/ HookStatusRecord
  \/ HookStatusApply
  \/ WebhookNotify
  \/ HookRespond
  \/ OrderCancel

SpecOrder == InitOrder /\ [][NextOrder]_vars

-----------------------------------------------------------------------------
(* A campaign with a phone the worker rejects: the basic server has created a
   campaign of a valid phone and one of five digits; clients start, pause,
   resume and cancel it while the worker runs *)

InitInvalid ==
  /\ now = 0
  /\ campaigns = <<CampaignRow(WA_PHONE_NUMBER_ID, 2)>>
  /\ targets = InsertTargets(<<>>, 1, BasicPhones(<<PhoneA, PhoneShort>>))
  /\ queue = <<>>
  /\ messages = <<>>
  /\ senders = {WA_PHONE_NUMBER_ID}
  /\ ticks = [t \in Ticks |-> IdleTick]
  /\ calls = <<>>
  /\ fetched = <<>>
  /\ env = DefaultEnv
  /\ http = NoRequest
  /\ events = <<>>
  /\ crm = <<>>
  /\ hook = NoHook

NextInvalid ==
  \/ AbortStart
  \/ PauseAny
  \/ ResumeAny
  \/ CancelAny
  \/ Fetch
  \/ Process
  \/ SendOk
  \/ SendFail
  \/ Wake
  \/ Clock

SpecInvalid == InitInvalid /\ [][NextInvalid]_vars

-----------------------------------------------------------------------------
(* Claims *)

(* rows handed to tick t that it has not finished: the current one until its
   send is over, and the ones after it *)
Held(t) ==
  IF ticks[t].pc = "idle" THEN {}
  ELSE {ticks[t].batch[k] : k \in (ticks[t].i + 1)..Len(ticks[t].batch)}
       \cup (IF ticks[t].pc = "sleep" THEN {} ELSE {ticks[t].batch[ticks[t].i]})

(* C1: a queue row is handed to at most one caller of fetchBatch: fetchBatch has
   returned it at most once more than markFailed has requeued it, and no two
   ticks hold the same unfinished row *)
C1_ExclusiveClaim ==
  /\ \A id \in DOMAIN queue : fetched[id] <= queue[id].attempts + 1
  /\ \A t \in Ticks, u \in Ticks : t # u => Held(t) \cap Held(u) = {}
  /\ \A t \in Ticks : \A id \in Held(t) : queue[id].status = "processing"

C1_Witness ==
  \E id \in DOMAIN queue, t \in Ticks, u \in Ticks :
    /\ t # u
    /\ fetched[id] = 2
    /\ id \in Held(t)
    /\ Held(u) # {}

(* C2: within one worker process at most one tick is in progress, so at most
   one provider call of the process is in flight *)
C2_OneTickPerWorker ==
  \A t \in Ticks, u \in Ticks :
    (t # u /\ WorkerOf(t) = WorkerOf(u)) =>
      (ticks[t].pc = "idle" \/ ticks[u].pc = "idle")

(* C3: a claimed row whose campaign is paused, canceled, done or error when the
   worker checks it is marked done, no provider call is issued for it and no
   target changes *)
C3_GateDrop ==
  [][\A t \in Ticks :
       (/\ ticks[t].pc = "run"
        /\ ticks'[t] # ticks[t]
        /\ campaigns[queue[Job(t)].campaign_id].status \in {"paused", "canceled", "done", "error"})
       => (/\ queue'[Job(t)].status = "done"
           /\ calls' = calls
           /\ ticks'[t].pc # "await"
           /\ targets' = targets)]_vars

C3_Witness ==
  \E id \in DOMAIN queue :
    /\ queue[id].status = "done"
    /\ calls[id] = 0
    /\ campaigns[queue[id].campaign_id].status = "paused"
    /\ targets[queue[id].target_id].status = "queued"
    /\ Len(targets[queue[id].target_id].phone) >= 7

InvalidPhone(id) ==
  Len(targets[id].phone) < 7 \/ Len(targets[id].phone) > 15

(* C4 as claimed: whenever the worker processes a claimed row whose target
   phone is not 7 to 15 digits, the target becomes failed/telefono_invalido,
   the row becomes done, no provider call is made, the row is never requeued *)
C4_InvalidPhoneAlwaysFailed ==
  [][\A t \in Ticks :
       (/\ ticks[t].pc = "run"
        /\ ticks'[t] # ticks[t]
        /\ InvalidPhone(queue[Job(t)].target_id))
       => (/\ targets'[queue[Job(t)].target_id].status = "failed"
           /\ targets'[queue[Job(t)].target_id].last_error.text = "telefono_invalido"
           /\ queue'[Job(t)].status = "done"
           /\ calls' = calls)]_vars

(* C4 amended: a claimed row whose target phone is not 7 to 15 digits is marked
   done without a provider call and is never requeued; its target becomes
   failed/telefono_invalido when the campaign passes the gate of step 3a, and
   is left unchanged when the campaign is paused, canceled, done or error *)
C4_InvalidPhone ==
  [][/\ \A t \in Ticks :
          (/\ ticks[t].pc = "run"
           /\ ticks'[t] # ticks[t]
           /\ InvalidPhone(queue[Job(t)].target_id))
          => (/\ queue'[Job(t)].status = "done"
              /\ calls' = calls
              /\ ticks'[t].pc # "await"
              /\ IF campaigns[queue[Job(t)].campaign_id].status
                      \in {"paused", "canceled", "done", "error"}
                 THEN targets' = targets
                 ELSE /\ targets'[queue[Job(t)].target_id].status = "failed"
                      /\ targets'[queue[Job(t)].target_id].last_error.text = "telefono_invalido")
     /\ \A id \in DOMAIN queue :
          InvalidPhone(queue[id].target_id)
          => (/\ queue'[id].attempts = 0
              /\ calls'[id] = 0
              /\ queue[id].status = "done" => queue'[id].status = "done")]_vars

C4_Witness ==
  \E id \in DOMAIN queue :
    /\ InvalidPhone(queue[id].target_id)
    /\ queue[id].status = "done"
    /\ targets[queue[id].target_id].status = "failed"
    /\ targets[queue[id].target_id].last_error.text = "telefono_invalido"

(* C5: a provider call is issued only after its target was set to sending; when
   it succeeds exactly one message row of that target and campaign is appended,
   the target becomes sent with the returned message id, the row becomes done *)
C5_SendSuccess ==
  [][\A t \in Ticks :
       /\ (ticks[t].pc = "run" /\ ticks'[t].pc = "await")
          => targets'[queue[Job(t)].target_id].status = "sending"
       /\ (ticks[t].pc = "await" /\ ticks'[t].pc = "sleep")
          => (/\ Len(messages') = Len(messages) + 1
              /\ SubSeq(messages', 1, Len(messages)) = messages
              /\ messages'[Len(messages')].target_id = queue[Job(t)].target_id
              /\ messages'[Len(messages')].campaign_id = queue[Job(t)].campaign_id
              /\ messages'[Len(messages')].campaign_id
                   = targets[queue[Job(t)].target_id].campaign_id
              /\ targets'[queue[Job(t)].target_id].status = "sent"
              /\ targets'[queue[Job(t)].target_id].wa_message_id
                   = messages'[Len(messages')].wa_id
              /\ queue'[Job(t)].status = "done")]_vars

C5_Witness ==
  \E id \in DOMAIN queue, m \in DOMAIN messages :
    /\ queue[id].status = "done"
    /\ messages[m].target_id = queue[id].target_id
    /\ messages[m].wa_id # NoId
    /\ targets[queue[id].target_id].status = "sent"
    /\ targets[queue[id].target_id].wa_message_id = messages[m].wa_id

(* C6: when the provider call fails the target becomes failed with the error
   text cut to 500 characters, no message row is written, and the row goes
   back to queued with one more attempt, due 3000 ms * min(attempts, 10) later *)
C6_SendFailure ==
  [][\A t \in Ticks :
       (ticks[t].pc = "await" /\ ticks'[t] # ticks[t] /\ ticks'[t].pc # "sleep")
       => (/\ targets'[queue[Job(t)].target_id].status = "failed"
           /\ \E err \in ErrorTexts :
                /\ targets'[queue[Job(t)].target_id].last_error.text = err.text
                /\ targets'[queue[Job(t)].target_id].last_error.len
                     = (IF err.len <= 500 THEN err.len ELSE 500)
           /\ messages' = messages
           /\ queue'[Job(t)].status = "queued"
           /\ queue'[Job(t)].attempts = queue[Job(t)].attempts + 1
           /\ queue'[Job(t)].available_at
                = now + 3000 * (IF queue'[Job(t)].attempts <= 10
                                THEN queue'[Job(t)].attempts ELSE 10))]_vars

(* a failed send was requeued and a later tick has claimed the row again *)
C6_Witness ==
  \E id \in DOMAIN queue, t \in Ticks :
    /\ queue[id].attempts = 1
    /\ queue[id].status = "processing"
    /\ id \in Held(t)
    /\ targets[queue[id].target_id].last_error.len = 500

(* C7: markFailed adds one attempt, requeues the row and makes it due
   backoff * min(attempts, 10) after now; the delay does not shrink from one
   attempt to the next and never exceeds 10 * backoff *)
C7_Backoff ==
  [][\A id \in DOMAIN queue :
       (queue[id].status = "processing" /\ queue'[id].status = "queued")
       => (/\ queue'[id].attempts = queue[id].attempts + 1
           /\ queue'[id].available_at - now
                = 3000 * (IF queue'[id].attempts <= 10 THEN queue'[id].attempts ELSE 10)
           /\ queue'[id].available_at - now
                >= 3000 * (IF queue[id].attempts <= 10 THEN queue[id].attempts ELSE 10)
           /\ queue'[id].available_at - now <= 10 * 3000)]_vars

C7_Witness ==
  \E id \in DOMAIN queue :
    /\ queue[id].status = "queued"
    /\ queue[id].attempts = 12
    /\ queue[id].available_at = now + 30000

(* C8: fetchBatch returns at most limit rows, the queued rows due at the call
   with the smallest ids, ascending; exactly the returned rows become
   processing and every other row is unchanged *)
C8_FetchBatch ==
  [][\A t \in Ticks :
       (ticks[t].pc = "idle" /\ ticks'[t].pc # "idle")
       => LET rows == ticks'[t].batch
              due == {id \in DOMAIN queue :
                        queue[id].status = "queued" /\ queue[id].available_at <= now}
          IN /\ Len(rows) <= SmallBatch
             /\ \A k \in DOMAIN rows : rows[k] \in due
             /\ \A k \in DOMAIN rows : \A j \in DOMAIN rows : k < j => rows[k] < rows[j]
             /\ \A id \in due : \A k \in DOMAIN rows : id < rows[k] => id \in Range(rows)
             /\ Len(rows) < SmallBatch => due \subseteq Range(rows)
             /\ DOMAIN queue' = DOMAIN queue
             /\ \A id \in DOMAIN queue :
                  queue'[id] = IF id \in Range(rows)
                               THEN [queue[id] EXCEPT !.status = "processing"]
                               ELSE queue[id]]_vars

(* two rows were due and the first was returned alone; it had been requeued
   by markFailed and was returned again only once it was due *)
C8_Witness ==
  \E a \in DOMAIN queue, b \in DOMAIN queue, t \in Ticks :
    /\ a < b
    /\ queue[a].status = "processing"
    /\ queue[a].attempts = 1
    /\ queue[a].available_at = now
    /\ fetched[a] = 2
    /\ a \in Held(t)
    /\ queue[b].status = "queued"
    /\ queue[b].available_at < now
    /\ fetched[b] = 0

TargetsIn(c, statuses) ==
  {id \in DOMAIN targets : targets[id].campaign_id = c /\ targets[id].status \in statuses}

(* C9: start enqueues exactly one row for each queued or failed target of the
   campaign, tagged with the campaign and its sender, nothing for any other
   target, and sets the campaign to running; with 3 sent and 2 failed targets
   it enqueues exactly the 2 failed ones *)
C9_Start ==
  [][\A c \in DOMAIN campaigns :
       (\/ campaigns[c].status # "running" /\ campaigns'[c].status = "running"
        \/ Len(queue') > Len(queue) /\ queue'[Len(queue')].campaign_id = c)
       => LET new == (Len(queue) + 1)..Len(queue')
              sel == TargetsIn(c, {"queued", "failed"})
          IN /\ SubSeq(queue', 1, Len(queue)) = queue
             /\ Len(queue') = Len(queue) + Cardinality(sel)
             /\ \A id \in sel :
                  Cardinality({k \in new : queue'[k].target_id = id}) = 1
             /\ \A k \in new :
                  /\ queue'[k].target_id \in sel
                  /\ queue'[k].campaign_id = c
                  /\ queue'[k].phone_id = campaigns[c].sender_phone_id
                  /\ queue'[k].status = "queued"
                  /\ queue'[k].attempts = 0
                  /\ queue'[k].available_at = now
             /\ campaigns'[c].status = "running"
             /\ targets' = targets
             /\ (Cardinality(TargetsIn(c, {"sent"})) = 3
                 /\ Cardinality(TargetsIn(c, {"failed"})) = 2
                 /\ Cardinality(TargetsIn(c, {"queued"})) = 0)
                => /\ Len(queue') = Len(queue) + 2
                   /\ \A k \in new : targets[queue'[k].target_id].status = "failed"]_vars

(* start was called twice on the campaign with 3 sent and 2 failed targets *)
C9_Witness ==
  /\ Cardinality(TargetsIn(1, {"sent"})) = 3
  /\ Cardinality(TargetsIn(1, {"failed"})) = 2
  /\ Len(queue) = 9
  /\ \A k \in 6..9 : queue[k].campaign_id = 1 /\ targets[queue[k].target_id].status = "failed"
  /\ \A k \in 6..9 : queue[k].status = "queued" /\ queue[k].attempts = 0
  /\ queue[6].target_id = queue[8].target_id
  /\ queue[7].target_id = queue[9].target_id
  /\ campaigns[1].status = "running"

(* C10: cancel sets the campaign to canceled and exactly its queued or sending
   targets to canceled; every other target, every other campaign and the queue
   are unchanged *)
C10_Cancel ==
  [][\A c \in DOMAIN campaigns :
       (campaigns[c].status # "canceled" /\ campaigns'[c].status = "canceled")
       => (/\ campaigns' = [campaigns EXCEPT ![c].status = "canceled"]
           /\ DOMAIN targets' = DOMAIN targets
           /\ \A id \in DOMAIN targets :
                targets'[id] =
                  IF targets[id].campaign_id = c /\ targets[id].status \in {"queued", "sending"}
                  THEN [targets[id] EXCEPT !.status = "canceled"]
                  ELSE targets[id]
           /\ queue' = queue
           /\ messages' = messages)]_vars

C10_Witness ==
  \E a \in DOMAIN targets, b \in DOMAIN targets, d \in DOMAIN targets :
    /\ targets[a].campaign_id = targets[b].campaign_id
    /\ targets[d].campaign_id # targets[a].campaign_id
    /\ campaigns[targets[a].campaign_id].status = "canceled"
    /\ targets[a].status = "canceled"
    /\ targets[b].status = "sent"
    /\ targets[d].status \in {"queued", "sending"}
    /\ \E id \in DOMAIN queue : queue[id].status = "processing"

(* a step of the API: the worker and the clock have not moved *)
ApiStep == ticks' = ticks /\ now' = now /\ vars' # vars

(* C11: pause and resume set the status of the campaign to paused and to
   running, whatever it was, and change nothing else: no target, no queue
   row, no other campaign *)
C11_PauseResume ==
  [][(ApiStep /\ http'.route \in {"pause", "resume"})
     => (/\ campaigns' = [campaigns EXCEPT ![http'.id].status =
                            IF http'.route = "pause" THEN "paused" ELSE "running"]
         /\ targets' = targets
         /\ queue' = queue
         /\ messages' = messages
         /\ senders' = senders
         /\ calls' = calls)]_vars

(* a done campaign was resumed and a canceled campaign was paused, with rows
   in the queue *)
C11_Witness ==
  /\ Len(campaigns) = 2
  /\ campaigns[1].status = "paused"
  /\ campaigns[2].status = "running"
  /\ http.route = "resume"
  /\ http.id = 2
  /\ TargetsIn(1, {"canceled"}) # {}
  /\ TargetsIn(2, {"queued", "failed"}) = {}
  /\ TargetsIn(2, {"sent"}) # {}
  /\ queue # <<>>

(* tick t returns in this step *)
TickEnds(t) == ticks[t].pc # "idle" /\ ticks'[t].pc = "idle"

(* campaign c is running and none of its targets is queued, sending or failed
   when the tick returns *)
Finished(c) ==
  /\ campaigns[c].status = "running"
  /\ \A id \in DOMAIN targets' :
       targets'[id].campaign_id = c => targets'[id].status \notin {"queued", "sending", "failed"}

(* C12: a campaign becomes done only when a tick returns with every queue row
   done, and only if it is running without a queued, sending or failed target;
   such a tick flips every campaign of that kind and changes no other *)
C12_Sweep ==
  [][/\ \A c \in DOMAIN campaigns :
          (campaigns[c].status # "done" /\ campaigns'[c].status = "done")
          => (/\ \E t \in Ticks : TickEnds(t)
              /\ \A id \in DOMAIN queue' : queue'[id].status = "done"
              /\ Finished(c))
     /\ \A t \in Ticks :
          TickEnds(t)
          => (/\ DOMAIN campaigns' = DOMAIN campaigns
              /\ \A c \in DOMAIN campaigns :
                   campaigns'[c] =
                     IF (\A id \in DOMAIN queue' : queue'[id].status = "done") /\ Finished(c)
                     THEN [campaigns[c] EXCEPT !.status = "done"]
                     ELSE campaigns[c])]_vars

(* the sweep has flipped the finished campaign and left the running campaign
   that still has queued targets *)
C12_Witness ==
  /\ Len(campaigns) = 2
  /\ campaigns[1].status = "done"
  /\ campaigns[2].status = "running"
  /\ TargetsIn(2, {"queued"}) # {}
  /\ TargetsIn(1, {"sent"}) # {}
  /\ queue # <<>>
  /\ \A id \in DOMAIN queue : queue[id].status = "done"
  /\ \A t \in Ticks : ticks[t].pc = "idle"

(* C13: no queue row is ever given up because of its attempt count: a failed
   send requeues the row whatever its number of attempts, and no row has
   status failed *)
C13_AlwaysRetried ==
  [][/\ \A id \in DOMAIN queue : queue[id].status \in {"queued", "processing", "done"}
     /\ \A id \in DOMAIN queue' : queue'[id].status \in {"queued", "processing", "done"}
     /\ \A t \in Ticks :
          (ticks[t].pc = "await" /\ ticks'[t] # ticks[t] /\ ticks'[t].pc # "sleep")
          => (/\ queue'[Job(t)].status = "queued"
              /\ queue'[Job(t)].attempts = queue[Job(t)].attempts + 1
              /\ queue'[Job(t)].attempts >= 1)]_vars

(* the row has failed MaxPrevAttempts + 1 times and has been claimed once more *)
C13_Witness ==
  \E id \in DOMAIN queue :
    /\ queue[id].attempts = MaxPrevAttempts + 1
    /\ queue[id].status = "processing"
    /\ fetched[id] = MaxPrevAttempts + 2
    /\ calls[id] = MaxPrevAttempts + 1

(* C14: a queue row that is done stays as it is: no fetchBatch, markFailed,
   start, pause, resume or cancel changes it *)
C14_DoneIsFinal ==
  [][\A id \in DOMAIN queue : queue[id].status = "done" => queue'[id] = queue[id]]_vars

(* one row is done, its campaign has been canceled, and the other row has
   failed, been requeued and been claimed again *)
C14_Witness ==
  \E a \in DOMAIN queue, b \in DOMAIN queue :
    /\ queue[a].status = "done"
    /\ campaigns[queue[a].campaign_id].status = "canceled"
    /\ queue[b].status = "processing"
    /\ queue[b].attempts = 1
    /\ fetched[b] = 2

(* the time of day of t is outside the window: 22:00-06:00 is closed from 06:01
   to 21:59, 09:00-18:00 is closed before 09:00 and after 18:00, and a window
   without a start or an end is never closed *)
Closed(window, t) ==
  LET minute == (t \div 60000) % 1440
  IN \/ window = NightWindow /\ minute > 360 /\ minute < 1320
     \/ window = DayWindow /\ (minute < 540 \/ minute > 1080)

(* C15: while the time is outside the delivery window a tick that fires claims no
   queue row and changes nothing; the window test passes exactly when the
   time of day is inside the window, a window whose end is before its start
   running past midnight: 22:00-06:00 is open at 23:30 and closed at 12:00 *)
C15_Window ==
  [][/\ Closed(env.DELIVERY_WINDOW, now)
        => (/\ \A t \in Ticks : ticks[t].pc = "idle" => ticks'[t] = ticks[t]
            /\ \A id \in DOMAIN queue : queue[id].status = "queued" => queue'[id] = queue[id]
            /\ \A id \in DOMAIN fetched : fetched'[id] = fetched[id])
     /\ inWindow(now, env.DELIVERY_WINDOW) <=> ~Closed(env.DELIVERY_WINDOW, now)
     /\ inWindow(At(0, 23, 30), NightWindow)
     /\ ~inWindow(At(0, 12, 0), NightWindow)]_vars

(* under 22:00-06:00 the campaign was started at 12:00, nothing was claimed
   until 23:30, and the tick at 23:30 has claimed the first row *)
C15_Witness ==
  /\ env.DELIVERY_WINDOW = NightWindow
  /\ now = At(0, 23, 30)
  /\ Len(queue) = 2
  /\ queue[1].available_at = At(0, 12, 0)
  /\ queue[1].status = "processing"
  /\ fetched = <<1, 0>>
  /\ messages = <<>>

(* C16: enqueueTarget inserts exactly one queue row, queued, with no attempts,
   due at the current time; it issues no provider call and changes no
   campaign, no target and no queue row that was there *)
C16_Enqueue ==
  [][Len(queue') # Len(queue)
     => (/\ Len(queue') = Len(queue) + 1
         /\ SubSeq(queue', 1, Len(queue)) = queue
         /\ queue'[Len(queue')].status = "queued"
         /\ queue'[Len(queue')].attempts = 0
         /\ queue'[Len(queue')].available_at = now
         /\ queue'[Len(queue')].campaign_id = targets[queue'[Len(queue')].target_id].campaign_id
         /\ calls' = Append(calls, 0)
         /\ campaigns' = campaigns
         /\ targets' = targets
         /\ messages' = messages
         /\ ticks' = ticks
         /\ now' = now)]_vars

(* a row enqueued after time has passed, next to a done row and a requeued row *)
C16_Witness ==
  /\ Len(queue) = 3
  /\ now = SEND_BACKOFF_MS
  /\ queue[1].status = "done"
  /\ queue[2].attempts = 1
  /\ queue[3] = [campaign_id |-> 2, target_id |-> 6, phone_id |-> WA_PHONE_NUMBER_ID,
                  available_at |-> SEND_BACKOFF_MS, attempts |-> 0, status |-> "queued"]
  /\ \E t \in Ticks : ticks[t].pc = "await"

(* entry i of the request is a phone that is valid after normalization *)
ValidEntry(raw, i) == isLikelyValidPhone(normalizePhone(raw[i], DEFAULT_COUNTRY_CODE))

ValidEntries(raw) == {i \in DOMAIN raw : ValidEntry(raw, i)}

DistinctValid(raw) == {normalizePhone(raw[i], DEFAULT_COUNTRY_CODE) : i \in ValidEntries(raw)}

(* a step of POST /api/campaigns *)
CreateStep == http'.route = "create" /\ vars' # vars

(* C17 as claimed: a create whose list holds no phone that is valid after
   normalization is rejected and inserts or changes no campaign, target or
   sender row *)
C17_RejectedCreateChangesNothing ==
  [][(CreateStep /\ ValidEntries(http'.req) = {})
     => (/\ http'.status # 200
         /\ campaigns' = campaigns
         /\ targets' = targets
         /\ senders' = senders)]_vars

(* C18 as claimed: a campaign created from N valid and M invalid numbers has
   total_targets N and reports skipped_invalid M *)
C18_TotalIsValidCount ==
  [][(CreateStep /\ http'.status = 200)
     => (/\ http'.body.total_targets = Cardinality(ValidEntries(http'.req))
         /\ campaigns'[http'.id].total_targets = Cardinality(ValidEntries(http'.req))
         /\ http'.body.skipped_invalid
              = Len(http'.req) - Cardinality(ValidEntries(http'.req)))]_vars

(* C18 amended: total_targets is the number of distinct phones among the valid
   numbers after normalization, and skipped_invalid is the number of invalid
   entries that are not empty *)
C18_Totals ==
  [][(CreateStep /\ http'.status = 200)
     => (/\ http'.body.total_targets = Cardinality(DistinctValid(http'.req))
         /\ campaigns'[http'.id].total_targets = Cardinality(DistinctValid(http'.req))
         /\ Len(targets') = Len(targets) + Cardinality(DistinctValid(http'.req))
         /\ http'.body.skipped_invalid
              = Cardinality({i \in DOMAIN http'.req :
                               http'.req[i] # <<>> /\ ~ValidEntry(http'.req, i)}))]_vars

(* a campaign created from three valid numbers, two of them the same, and one
   invalid number *)
C18_Witness ==
  /\ http.route = "create"
  /\ http.status = 200
  /\ http.req = <<PhoneA, PhoneTiny, PhoneA, PhoneB>>
  /\ http.body.total_targets = 2
  /\ http.body.skipped_invalid = 1
  /\ campaigns[http.id].total_targets = 2
  /\ Cardinality(TargetsIn(http.id, {"queued"})) = 2

(* C19: no two targets have the same campaign and phone; a create skips the
   valid targets whose normalized phone it has already inserted and reports
   their number as duplicates; +51918131082 and 918131082 normalize to the same
   phone, so that list inserts 1 target *)
C19_NoDuplicateTargets ==
  [][/\ \A a \in DOMAIN targets', b \in DOMAIN targets' :
          (targets'[a].campaign_id = targets'[b].campaign_id
           /\ targets'[a].phone = targets'[b].phone) => a = b
     /\ (CreateStep /\ http'.status = 200)
        => (/\ http'.body.duplicates
                 = Cardinality(ValidEntries(http'.req)) - Cardinality(DistinctValid(http'.req))
            /\ Len(targets') - Len(targets) = Cardinality(DistinctValid(http'.req)))
     /\ (CreateStep /\ http'.req = <<PhonePlus, PhoneA>>)
        => (/\ http'.status = 200
            /\ http'.body.total_targets = 1
            /\ http'.body.duplicates = 1
            /\ Len(targets') = Len(targets) + 1
            /\ targets'[Len(targets')].phone
                 = <<"5", "1", "9", "1", "8", "1", "3", "1", "0", "8", "2">>)]_vars

C19_Witness ==
  /\ http.route = "create"
  /\ http.req = <<PhonePlus, PhoneA>>
  /\ http.body.total_targets = 1
  /\ http.body.duplicates = 1
  /\ Cardinality(TargetsIn(http.id, {"queued"})) = 1

(* the request a step of POST /webhooks/wa receives: kept by the handler when
   it is accepted, answered at once when it is rejected *)
WebhookStep == hook.pc = "idle" /\ now' = now /\ vars' # vars

Received == IF hook'.pc # "idle" THEN hook'.req ELSE http'.req

(* the request carries the header made from the configured secret and its own body *)
RightlySigned(req) ==
  /\ req.signature.present
  /\ req.signature.scheme = "sha256"
  /\ req.signature.mac.key = env.WA_APP_SECRET
  /\ req.signature.mac.msg = req.body

(* C20: with a secret configured, a webhook POST whose signature header is
   missing or is not the HMAC-SHA256 of its raw body is rejected with 403: no
   event row, no target change, no CRM comment, then or later; without a secret
   every POST is processed *)
C20_Signature ==
  [][/\ WebhookStep
        => /\ hook'.pc = "idle" <=> (env.WA_APP_SECRET # "" /\ ~RightlySigned(Received))
           /\ hook'.pc = "idle" => http'.status = 403
           /\ events' = events
           /\ targets' = targets
           /\ crm' = crm
     /\ (events' # events \/ crm' # crm \/ (targets' # targets /\ now' = now))
        => /\ hook.pc # "idle"
           /\ env.WA_APP_SECRET = "" \/ RightlySigned(hook.req)]_vars

(* with a secret configured, a callback signed with another key was rejected
   after a rightly signed one had been processed *)
C20_Witness ==
  /\ env.WA_APP_SECRET = "k1"
  /\ hook.pc = "idle"
  /\ http.route = "webhook"
  /\ http.status = 403
  /\ http.req.signature = SignatureHeader("sha256", "k2", http.req.body)
  /\ http.req.body.statuses # <<>>
  /\ Len(events) = 1
  /\ targets[1].status = "delivered"
  /\ targets[2].status = "sent"

-----------------------------------------------------------------------------
(* the element of the payload the webhook handler is at *)
Current == IF hook.statuses # <<>> THEN Head(hook.statuses) ELSE Head(hook.messages)

Handling == hook.statuses # <<>> \/ hook.messages # <<>>

(* C21: for every status event and every message event of an accepted webhook
   POST one Event Record is appended, before any target lookup or mutation for
   that event, whether or not a target matches *)
C21_EveryEventRecorded ==
  [][(hook.pc = "loop" /\ Handling /\ hook' # hook)
       => /\ Len(events') = Len(events) + 1
          /\ events'[Len(events')].wa_message_id = Current.id
          /\ targets' = targets
          /\ hook'.target = NoId]_vars

-----------------------------------------------------------------------------
(* no target carries this provider message id *)
Unknown(id) == \A t \in DOMAIN targets : targets[t].wa_message_id # id

(* C22: a status callback whose message id matches no target is recorded in the
   Event Record and changes no target, campaign or queue entry *)
C22_UnknownMessageId ==
  [][(hook.pc \in {"loop", "status"} /\ hook.statuses # <<>>
        /\ Current.id # NoId /\ Unknown(Current.id) /\ hook' # hook)
       => /\ targets' = targets
          /\ campaigns' = campaigns
          /\ queue' = queue
          /\ crm' = crm
          /\ hook.pc = "loop"
             => events' = Append(events, [wa_message_id |-> Current.id,
                                          type |-> Current.status])
          /\ hook.pc = "status"
             => /\ events' = events
                /\ events[Len(events)].wa_message_id = Current.id
                /\ hook'.pc = "loop"
                /\ hook'.statuses = Tail(hook.statuses)]_vars

(* the callback "read" for the unknown id 9 has been answered: it is in the
   Event Record and every target is as it was *)
C22_Witness ==
  /\ hook.pc = "idle"
  /\ http.status = 200
  /\ http.req.body.statuses = <<StatusEvent(9, "read")>>
  /\ events = <<[wa_message_id |-> 9, type |-> "read"]>>
  /\ targets[1].status = "sent" /\ targets[1].updated_at = 0
  /\ targets[2].status = "sent" /\ targets[2].updated_at = 0
  /\ targets[3].status = "queued" /\ targets[3].updated_at = 0
  /\ crm = <<>>

-----------------------------------------------------------------------------
(* the target a status callback is for *)
Matched(id) == CHOOSE t \in DOMAIN targets : targets[t].wa_message_id = id

(* the step that applies a status callback to its target *)
StatusApplied ==
  hook.pc = "status" /\ ~Unknown(Current.id) /\ hook' # hook

(* C23: a status callback whose message id matches a target sets the target's
   status to sent, delivered, read or failed as the provider says, with the
   joined error titles cut to 300 characters in last_error on failed; any other
   provider status changes only updated_at *)
C23_StatusCallback ==
  [][StatusApplied
       => LET t == Matched(Current.id)
              st == Current
          IN /\ \A u \in DOMAIN targets : u # t => targets'[u] = targets[u]
             /\ targets'[t].updated_at = now
             /\ targets'[t].wa_message_id = targets[t].wa_message_id
             /\ targets'[t].phone = targets[t].phone
             /\ st.status \in {"sent", "delivered", "read"}
                => /\ targets'[t].status = st.status
                   /\ targets'[t].last_error = targets[t].last_error
             /\ st.status = "failed"
                => /\ targets'[t].status = "failed"
                   /\ st.errors = ProviderErrors
                      => targets'[t].last_error = [text |-> "Rate limit; blocked",
                                                   len |-> 300]
                   /\ ~st.errors.isArray
                      => targets'[t].last_error = [text |-> "failed", len |-> 6]
             /\ st.status \notin {"sent", "delivered", "read", "failed"}
                => /\ targets'[t].status = targets[t].status
                   /\ targets'[t].last_error = targets[t].last_error]_vars

(* target 1 failed by a callback without an errors array, then touched a
   second later by a callback of a status the map does not know *)
C23_Witness ==
  /\ hook.pc = "idle"
  /\ events = <<[wa_message_id |-> 1, type |-> "failed"],
                [wa_message_id |-> 1, type |-> "deleted"]>>
  /\ targets[1].status = "failed"
  /\ targets[1].last_error = [text |-> "failed", len |-> 6]
  /\ targets[1].updated_at = 1000

-----------------------------------------------------------------------------
(* the step that resolves the target of an inbound reply *)
ReplyResolved == hook.pc = "reply" /\ hook' # hook

(* the sender of the replies, in the form the targets are stored in *)
SenderC == <<"5", "1">> \o PhoneC

(* C24: the target of a reply is the one its context message id names; only
   when there is none is it the most recently updated target with the
   normalized sender phone; the resolved target has only updated_at changed *)
C24_Reply ==
  [][ReplyResolved
       => LET msg == Current
              t == hook'.target
              byContext == {u \in DOMAIN targets :
                              msg.context # NoId /\ targets[u].wa_message_id = msg.context}
              byPhone == {u \in DOMAIN targets :
                            msg.from = FromC /\ targets[u].phone = SenderC}
          IN /\ byContext # {} => t \in byContext
             /\ (byContext = {} /\ byPhone # {})
                => /\ t \in byPhone
                   /\ \A u \in byPhone : targets[u].updated_at <= targets[t].updated_at
             /\ (byContext = {} /\ byPhone = {}) => t = NoId /\ targets' = targets
             /\ \A u \in DOMAIN targets :
                  /\ targets'[u].status = targets[u].status
                  /\ targets'[u].last_error = targets[u].last_error
                  /\ targets'[u].wa_message_id = targets[u].wa_message_id
                  /\ targets'[u].phone = targets[u].phone
                  /\ targets'[u].campaign_id = targets[u].campaign_id
                  /\ targets'[u].updated_at = IF u = t THEN now ELSE targets[u].updated_at]_vars

(* a reply without context resolved by phone to target 4, touched a second
   before, although target 3 of the other campaign has the same phone *)
C24_Witness ==
  /\ hook.pc = "notify"
  /\ hook.kind = "reply"
  /\ Current.context = NoId
  /\ hook.target = 4
  /\ targets[3].phone = targets[4].phone
  /\ targets[3].updated_at = 0
  /\ targets[4].updated_at = 1000
  /\ Len(events) = 2

-----------------------------------------------------------------------------
(* the step in which the CRM push of the current event failed *)
PushFailed ==
  /\ hook.pc = "notify"
  /\ Len(crm') = Len(crm) + 1
  /\ ~crm'[Len(crm')].ok

(* C25: when the CRM push fails while a webhook event is handled, the target
   update made for that event is kept, the remaining events of the payload are
   still handled and the response is a success *)
C25_PushFailure ==
  [][/\ PushFailed
        => /\ targets' = targets
           /\ events' = events
           /\ http' = http
           /\ hook'.pc = "loop"
           /\ hook'.req = hook.req
           /\ hook.kind = "status"
              => hook'.statuses = Tail(hook.statuses) /\ hook'.messages = hook.messages
           /\ hook.kind = "reply"
              => hook'.messages = Tail(hook.messages)
     /\ (hook.pc # "idle" /\ hook'.pc = "idle")
        => /\ http'.status = 200
           /\ http'.req = hook.req
           /\ hook.statuses = <<>>
           /\ hook.messages = <<>>]_vars

(* the push for the failed callback of target 2 failed; target 2 is failed, the
   reply that followed in the payload was recorded and pushed, the answer is 200 *)
C25_Witness ==
  /\ hook.pc = "idle"
  /\ http.status = 200
  /\ Len(http.req.body.statuses) = 1
  /\ Len(http.req.body.messages) = 1
  /\ crm = <<[target |-> 2, kind |-> "status", ok |-> FALSE],
             [target |-> 1, kind |-> "reply", ok |-> TRUE]>>
  /\ targets[2].status = "failed"
  /\ events = <<[wa_message_id |-> 2, type |-> "failed"],
                [wa_message_id |-> 7, type |-> "reply"]>>

-----------------------------------------------------------------------------
(* fewer values than the template body has placeholders *)
Incomplete(values) == Len(values) < Len(placeholderSlots(TemplateBody))

(* C26: a send whose template has more placeholders than supplied variables is
   rejected before any call to the messaging API: with the body {{1}}{{2}} and
   one variable no provider call is made and the target stays queued *)
C26_IncompleteVariablesRejected ==
  /\ \A q \in DOMAIN queue :
       Incomplete(targets[queue[q].target_id].vars)
         => /\ calls[q] = 0
            /\ targets[queue[q].target_id].status = "queued"
  /\ (http.route \in {"doctor", "panel"} /\ Incomplete(http.req)) => ~http.body.called

-----------------------------------------------------------------------------
(* the queue entries of a target that are queued or claimed *)
LiveEntries(target_id) ==
  {q \in DOMAIN queue : queue[q].target_id = target_id
                          /\ queue[q].status \in {"queued", "processing"}}

(* C27: every target has at most one queue entry in status queued or
   processing, also after start is called again on its campaign before the
   worker has processed the earlier entries *)
C27_OneLiveEntryPerTarget ==
  \A t \in DOMAIN targets : Cardinality(LiveEntries(t)) <= 1

-----------------------------------------------------------------------------
(* C28: the worker issues no provider call for a target that is canceled, sent,
   delivered or read when its queue entry is processed *)
C28_NoCallForSettledTarget ==
  [][\A q \in DOMAIN calls :
       calls'[q] # calls[q]
         => targets[queue[q].target_id].status
              \notin {"canceled", "sent", "delivered", "read"}]_vars

-----------------------------------------------------------------------------
(* a claimed entry no tick in progress holds: its tick has aborted *)
Orphaned(q) == queue[q].status = "processing" /\ \A t \in Ticks : q \notin Held(t)

(* C29: the entries a tick had claimed and not processed when it aborted stay
   in status processing: no fetchBatch returns them and no later tick, start or
   resume puts them back to queued or moves them to done *)
C29_StuckInProcessing ==
  [][\A q \in DOMAIN queue :
       Orphaned(q) => /\ queue'[q] = queue[q]
                      /\ fetched'[q] = fetched[q]
                      /\ calls'[q] = calls[q]]_vars

(* a tick aborted while sending to the first of its two targets; the campaign
   was started again and a later tick sent to the second target through a new
   entry, and the two entries of the aborted tick are still processing *)
C29_Witness ==
  /\ \A t \in Ticks : ticks[t].pc = "idle"
  /\ Len(queue) = 3
  /\ queue[1].status = "processing"
  /\ queue[2].status = "processing"
  /\ queue[3].status = "done"
  /\ fetched = <<1, 1, 1>>
  /\ targets[queue[1].target_id].status = "sending"
  /\ targets[queue[3].target_id].status = "sent"

-----------------------------------------------------------------------------
(* the completion condition of campaign c: running, no target queued, sending
   or failed, every queue entry done *)
Settled(c) ==
  /\ c \in DOMAIN campaigns
  /\ campaigns[c].status = "running"
  /\ \A t \in DOMAIN targets :
       targets[t].campaign_id = c => targets[t].status \notin {"queued", "sending", "failed"}
  /\ \A q \in DOMAIN queue : queue[q].status = "done"

(* C30: a running campaign without a queued, sending or failed target, while
   every queue entry is done, is eventually flipped to done by the worker, also
   when no queue entry is claimed any more *)
C30_EventuallyDone == Settled(1) ~> (campaigns[1].status = "done")

-----------------------------------------------------------------------------
(* campaign c is through: it is done, each of its targets is sent and each of
   its queue entries is done *)
Completed(c) ==
  /\ campaigns[c].status = "done"
  /\ \A t \in DOMAIN targets : targets[t].campaign_id = c => targets[t].status = "sent"
  /\ \A q \in DOMAIN queue : queue[q].campaign_id = c => queue[q].status = "done"

(* C31: with fair ticks, an open window, every provider call succeeding, valid
   phones and no pause or cancel, a campaign that start has set running
   eventually has every target sent, every queue entry done and is itself done *)
C31_StartCompletes == (campaigns[1].status = "running") ~> Completed(1)

-----------------------------------------------------------------------------
(* the campaign has been paused and then resumed, and target t is still queued *)
ResumedQueued(t) == http.route = "resume" /\ targets[t].status = "queued"

(* C32: after pause followed by resume, every target of the campaign that was
   still queued is eventually sent, with fair ticks, an open window and a
   succeeding provider, without start being called again *)
C32_ResumeSendsQueued ==
  \A t \in 1..3 : ResumedQueued(t) ~> (targets[t].status = "sent")

-----------------------------------------------------------------------------
(* the step in which the provider call a tick is awaiting for entry q is
   rejected: the catch block sets the target failed and the tick moves on *)
FailedSend(q) ==
  \E t \in Ticks :
    /\ ticks[t].pc = "await"
    /\ Job(t) = q
    /\ ticks'[t] # ticks[t]
    /\ messages' = messages
    /\ targets'[queue[q].target_id].status = "failed"

(* C33: the attempts counter of a queue entry starts at zero, grows by exactly
   one in the step of a failed provider call on that entry and is changed by no
   other step (success, gate drop, validation failure, start, pause, resume,
   cancel); so it counts the failed sends: it is the number of provider calls
   issued for the entry, less the one that is pending or has succeeded *)
C33_AttemptsCountFailedSends ==
  [][/\ \A q \in DOMAIN queue :
          queue'[q].attempts = queue[q].attempts + (IF FailedSend(q) THEN 1 ELSE 0)
     /\ \A q \in DOMAIN queue' \ DOMAIN queue : queue'[q].attempts = 0
     /\ \A q \in DOMAIN queue' :
          /\ queue'[q].attempts \in {calls'[q] - 1, calls'[q]}
          /\ queue'[q].status = "queued" => queue'[q].attempts = calls'[q]
          /\ (\E t \in Ticks : ticks'[t].pc = "await" /\ ticks'[t].batch[ticks'[t].i] = q)
               => queue'[q].attempts = calls'[q] - 1]_vars

(* an entry whose first send failed was requeued and sent at the second call,
   and an entry with one failed send was dropped at the gate *)
C33_Witness ==
  /\ \E q \in DOMAIN queue :
       /\ queue[q].attempts = 1 /\ calls[q] = 2 /\ queue[q].status = "done"
       /\ targets[queue[q].target_id].status = "sent"
  /\ \E q \in DOMAIN queue :
       /\ queue[q].attempts = 1 /\ calls[q] = 1 /\ queue[q].status = "done"
       /\ fetched[q] = 2

-----------------------------------------------------------------------------
(* the step in which the webhook handler applies a status callback *)
CallbackStep == hook.pc = "status" /\ hook'.pc # "status"

(* C34: target status never moves backwards through callbacks: a delivered or
   sent callback handled after the target is read leaves the status read, and
   no callback changes the status of a canceled target *)
C34_NoBackwards ==
  [][CallbackStep =>
       \A t \in DOMAIN targets :
         /\ (targets[t].status = "read" /\ Head(hook.statuses).status \in {"sent", "delivered"})
              => targets'[t].status = "read"
         /\ targets[t].status = "canceled" => targets'[t].status = "canceled"]_vars

-----------------------------------------------------------------------------
(* the message rows of target t *)
MessagesOf(m, t) == {i \in DOMAIN m : m[i].target_id = t}

(* the step in which a provider call for target t resolves: the tick that was
   awaiting it goes on to the rate-limit sleep *)
SuccessfulSend(t) ==
  \E k \in Ticks :
    /\ ticks[k].pc = "await"
    /\ queue[Job(k)].target_id = t
    /\ ticks'[k].pc = "sleep"

(* the provider call of entry q is pending *)
InFlight(q) == \E k \in Ticks : ticks[k].pc = "await" /\ Job(k) = q

(* the entries of target t whose provider call has succeeded: every call
   issued for the entry but one has failed, and that one is not pending *)
Succeeded(t) ==
  {q \in DOMAIN queue :
     /\ queue[q].target_id = t
     /\ calls[q] = queue[q].attempts + 1
     /\ ~InFlight(q)}

(* C35: message rows are append-only: no step changes or removes a row, a row
   is added for target t exactly in the step of a successful provider call for
   t, and the rows of a target are as many as its successful provider calls *)
C35_MessagesAppendOnly ==
  [][/\ Len(messages') >= Len(messages)
     /\ \A i \in DOMAIN messages : messages'[i] = messages[i]
     /\ \A t \in DOMAIN targets :
          Cardinality(MessagesOf(messages', t))
            = Cardinality(MessagesOf(messages, t)) + (IF SuccessfulSend(t) THEN 1 ELSE 0)
     /\ \A t \in DOMAIN targets' :
          Cardinality(MessagesOf(messages', t)) = Cardinality(Succeeded(t)')]_vars

(* target 1 was sent at its second provider call after the first had failed,
   target 2 at its first: one message row each, three provider calls *)
C35_Witness ==
  /\ Len(messages) = 2
  /\ Len(queue) = 2
  /\ calls[1] + calls[2] = 3
  /\ \A q \in DOMAIN queue : queue[q].status = "done"
  /\ \A t \in DOMAIN targets : Cardinality(MessagesOf(messages, t)) = 1
  /\ \A t \in DOMAIN targets : targets[t].status = "sent"

-----------------------------------------------------------------------------
(* C36: the target of every queue entry is a target of the entry's campaign,
   and the entry's sender is the sender the campaign was given when it was
   started, a registered sender *)
C36_EntryOfItsCampaign ==
  \A q \in DOMAIN queue :
    /\ queue[q].campaign_id \in DOMAIN campaigns
    /\ queue[q].target_id \in DOMAIN targets
    /\ targets[queue[q].target_id].campaign_id = queue[q].campaign_id
    /\ queue[q].phone_id = campaigns[queue[q].campaign_id].sender_phone_id
    /\ queue[q].phone_id \in senders

(* both campaigns are started: the five entries of campaign 1 carry the sender
   it was created with, the entry of campaign 2 the default sender, and the
   same phone is a target of both *)
C36_Witness ==
  /\ Len(queue) = 6
  /\ \A q \in 1..5 : queue[q].campaign_id = 1 /\ queue[q].phone_id = "S2"
  /\ queue[6].campaign_id = 2 /\ queue[6].phone_id = WA_PHONE_NUMBER_ID
  /\ targets[queue[1].target_id].phone = targets[queue[6].target_id].phone
  /\ queue[1].status = "done"

-----------------------------------------------------------------------------
(* target t has been failed by the worker's phone validation *)
Invalidated(t) ==
  targets[t].status = "failed" /\ targets[t].last_error.text = "telefono_invalido"

(* C37: a campaign with a target failed by phone validation is never flipped
   to done by the worker: the target stays failed with telefono_invalido, no
   provider call is ever issued for it, also when start enqueues it again, and
   the sweep leaves its campaign as it is *)
C37_InvalidPhoneBlocksDone ==
  [][\A t \in DOMAIN targets :
       Invalidated(t)
         => /\ targets'[t].status = "failed"
            /\ targets'[t].last_error = targets[t].last_error
            /\ \A q \in DOMAIN queue' : queue'[q].target_id = t => calls'[q] = 0
            /\ campaigns[targets[t].campaign_id].status # "done"
            /\ campaigns'[targets[t].campaign_id].status # "done"]_vars

(* the valid target is sent, the five-digit one was failed by the validation,
   enqueued again by a second start and failed again: all three entries are
   done, no tick is in progress and the campaign is still running *)
C37_Witness ==
  /\ Len(queue) = 3
  /\ \A q \in DOMAIN queue : queue[q].status = "done"
  /\ \A t \in Ticks : ticks[t].pc = "idle"
  /\ campaigns[1].status = "running"
  /\ targets[1].status = "sent"
  /\ Invalidated(2)
  /\ queue[3].target_id = 2
  /\ fetched = <<1, 1, 1>>
  /\ calls = <<1, 0, 0>>

====
